---- MODULE Spec2Model ----
(***************************************************************************)
(* Model of the ontorag core: the proposal aggregator                      *)
(* (proposal_aggregator.py), the schema card merger (schema_card.py) and   *)
(* the baseline catalog / composer (ontology_catalog.py).                  *)
(*                                                                         *)
(* Python values are modelled as tagged records [k |-> kind, v |-> value]: *)
(* a str is the sequence of its characters, a dict a function from its     *)
(* keys, a list a sequence of values.  A call that raises yields the value *)
(* of kind "raise".                                                        *)
(***************************************************************************)
EXTENDS Integers, Sequences, FiniteSets, TLC

(***************************************************************************)
(* Strings.  A string is a sequence of atoms: single characters, and a few *)
(* fixed phrases (IRI prefixes, the fixed text of generated warnings) that *)
(* stand for the characters they spell.                                    *)
(***************************************************************************)
UpperAlpha ==
  <<"A","B","C","D","E","F","G","H","I","J","K","L","M",
    "N","O","P","Q","R","S","T","U","V","W","X","Y","Z">>

LowerAlpha ==
  <<"a","b","c","d","e","f","g","h","i","j","k","l","m",
    "n","o","p","q","r","s","t","u","v","w","x","y","z">>

\* The atoms in code-point order (the order Python's sorted() uses on str).
Ascii ==
  <<" ", "#", "'", ",", ".", "/", "0","1","2","3","4","5","6","7","8","9", ":">>
  \o UpperAlpha \o <<"[", "]", "_">>
  \o <<"a","b","c","d","e","f","g","h",
       "http://a.org", "http://b.org", "http://www.w3.org/2001/XMLSchema",
       "i","j","k","l","m","n","o","p","q","r","s","t","u","v","w","x","y","z">>
  \o <<"{", "}">>

IndexIn(seq, c) ==
  IF \E i \in DOMAIN seq : seq[i] = c
  THEN CHOOSE i \in DOMAIN seq : seq[i] = c
  ELSE 0

Code(c) == IndexIn(Ascii, c)

\* str.lower() on one character.
LowerChar(c) ==
  IF IndexIn(UpperAlpha, c) > 0 THEN LowerAlpha[IndexIn(UpperAlpha, c)] ELSE c

\* str.lower()
Lower(s) == [i \in DOMAIN s |-> LowerChar(s[i])]

IsSpace(c) == c = " "

RECURSIVE LStrip(_)
LStrip(s) == IF s # <<>> /\ IsSpace(Head(s)) THEN LStrip(Tail(s)) ELSE s

RECURSIVE RStrip(_)
RStrip(s) ==
  IF s # <<>> /\ IsSpace(s[Len(s)]) THEN RStrip(SubSeq(s, 1, Len(s) - 1)) ELSE s

\* str.strip()
Strip(s) == RStrip(LStrip(s))

\* a < b for two strings, as Python compares str (lexicographic by code point).
RECURSIVE StrLess(_, _)
StrLess(a, b) ==
  IF b = <<>> THEN FALSE
  ELSE IF a = <<>> THEN TRUE
  ELSE IF Head(a) = Head(b) THEN StrLess(Tail(a), Tail(b))
  ELSE Code(Head(a)) < Code(Head(b))

\* a < b for two tuples of strings of the same length.
RECURSIVE TupleLess(_, _)
TupleLess(a, b) ==
  IF a = <<>> \/ b = <<>> THEN FALSE
  ELSE IF Head(a) = Head(b) THEN TupleLess(Tail(a), Tail(b))
  ELSE StrLess(Head(a), Head(b))

\* sorted() on a sequence of <<key, item>> pairs, by key (a tuple of strings):
\* a stable insertion sort, as Python's sort is stable.
RECURSIVE InsertSorted(_, _)
InsertSorted(sorted, p) ==
  IF sorted = <<>> THEN <<p>>
  ELSE IF TupleLess(p[1], Head(sorted)[1])
       THEN <<p>> \o sorted
       ELSE <<Head(sorted)>> \o InsertSorted(Tail(sorted), p)

RECURSIVE SortPairs(_)
SortPairs(pairs) ==
  IF pairs = <<>> THEN <<>>
  ELSE InsertSorted(SortPairs(SubSeq(pairs, 1, Len(pairs) - 1)), pairs[Len(pairs)])

\* The items of sorted pairs.
Items(pairs) == [i \in DOMAIN pairs |-> pairs[i][2]]

(***************************************************************************)
(* Python values.                                                          *)
(***************************************************************************)
PStr(s) == [k |-> "str", v |-> s]

PNone == [k |-> "none", v |-> <<>>]

\* An int (non-zero, hence truthy); v holds the digits str() renders.
PInt(digits) == [k |-> "int", v |-> digits]

PList(items) == [k |-> "list", v |-> items]

\* A dict: fields is a function from the keys (a record), <<>> for {}.
PDict(fields) == [k |-> "dict", v |-> fields]

\* The outcome of a call that raised exception e.
Raise(e) == [k |-> "raise", v |-> e]

IsRaise(x) == x.k = "raise"

EmptyStr == PStr(<<>>)

EmptyList == PList(<<>>)

\* bool(x)
Truthy(x) ==
  CASE x.k = "none" -> FALSE
    [] x.k = "int" -> TRUE
    [] x.k = "dict" -> DOMAIN x.v # {}
    [] OTHER -> x.v # <<>>

\* x or d
Or(x, d) == IF Truthy(x) THEN x ELSE d

\* d.get(key, default) on a dict d
Get(d, key, default) == IF key \in DOMAIN d.v THEN d.v[key] ELSE default

\* key in d
HasKey(d, key) == key \in DOMAIN d.v

\* d[key] = val on a copy of dict d
SetItem(d, key, val) ==
  PDict([f \in DOMAIN d.v \cup {key} |-> IF f = key THEN val ELSE d.v[f]])

RECURSIVE Join(_, _)
Join(strs, sep) ==
  IF strs = <<>> THEN <<>>
  ELSE IF Len(strs) = 1 THEN strs[1]
  ELSE strs[1] \o sep \o Join(Tail(strs), sep)

RECURSIVE SetToSeq(_)
SetToSeq(S) ==
  IF S = {} THEN <<>>
  ELSE LET e == CHOOSE e \in S : TRUE IN <<e>> \o SetToSeq(S \ {e})

\* repr(x)
RECURSIVE Repr(_)
Repr(x) ==
  CASE x.k = "str" -> <<"'">> \o x.v \o <<"'">>
    [] x.k = "int" -> x.v
    [] x.k = "none" -> <<"N","o","n","e">>
    [] x.k = "list" ->
         <<"[">> \o Join([i \in DOMAIN x.v |-> Repr(x.v[i])], <<",", " ">>) \o <<"]">>
    [] x.k = "dict" ->
         LET keys == SetToSeq(DOMAIN x.v) IN
         <<"{">> \o Join([i \in DOMAIN keys |->
                           <<"'", keys[i], "'", ":", " ">> \o Repr(x.v[keys[i]])],
                         <<",", " ">>) \o <<"}">>

\* str(x), as a PStr
PyStr(x) == IF x.k = "str" THEN x ELSE PStr(Repr(x))

\* x.strip() for any value x: only a str has the method.
PyStrip(x) ==
  IF x.k = "str" THEN PStr(Strip(x.v)) ELSE Raise("AttributeError")

\* len(x): an int or None has no len().
PyLen(x) ==
  CASE x.k = "str" -> Len(x.v)
    [] x.k = "list" -> Len(x.v)
    [] x.k = "dict" -> Cardinality(DOMAIN x.v)
    [] OTHER -> -1

HasLen(x) == x.k \in {"str", "list", "dict"}

\* hash(x) is defined: a list or a dict is unhashable.
Hashable(x) == x.k \in {"str", "int", "none"}

(***************************************************************************)
(* Insertion-ordered dicts of the algorithms, as sequences of              *)
(* <<key, value>> pairs in insertion order.                                *)
(***************************************************************************)
MHas(m, key) == \E i \in DOMAIN m : m[i][1] = key

MGet(m, key) == m[CHOOSE i \in DOMAIN m : m[i][1] = key][2]

\* m[key] = val: an existing key keeps its position.
MSet(m, key, val) ==
  IF MHas(m, key)
  THEN [i \in DOMAIN m |-> IF m[i][1] = key THEN <<key, val>> ELSE m[i]]
  ELSE Append(m, <<key, val>>)

\* list(m.values())
MValues(m) == [i \in DOMAIN m |-> m[i][2]]

\* list(dict.fromkeys(items)): the items without repeats, in first-seen order.
RECURSIVE DedupSeq(_)
DedupSeq(items) ==
  IF items = <<>> THEN <<>>
  ELSE LET init == DedupSeq(SubSeq(items, 1, Len(items) - 1))
           last == items[Len(items)]
       IN IF \E i \in DOMAIN init : init[i] = last THEN init ELSE Append(init, last)

(***************************************************************************)
(* proposal_aggregator.py                                                  *)
(***************************************************************************)
\* _key(name): (name or "").strip().lower()
AggKey(name) ==
  LET n == Or(name, EmptyStr) IN
  IF n.k = "str" THEN PStr(Lower(Strip(n.v))) ELSE Raise("AttributeError")

\* _as_list(x), as a sequence of values
AsList(x) ==
  CASE x.k = "none" -> <<>>
    [] x.k = "list" -> x.v
    [] OTHER -> <<x>>

EvidenceItem(chunk_id, quote) == PDict([chunk_id |-> chunk_id, quote |-> quote])

\* One iteration of the loop of _normalize_evidence: out after item.
NormalizeEvidenceItem(out, item, default_chunk_id) ==
  CASE item.k = "none" -> out
    [] item.k = "dict" ->
         LET chunk_id == PyStr(Or(Get(item, "chunk_id", PNone), default_chunk_id))
             raw == Or(Get(item, "quote", PNone),
                       Or(Get(item, "text", PNone),
                          Or(Get(item, "snippet", PNone), EmptyStr)))
             quote == PStr(Strip(PyStr(raw).v))
         IN IF Truthy(quote) THEN Append(out, EvidenceItem(chunk_id, quote)) ELSE out
    [] item.k = "str" ->
         LET q == PStr(Strip(item.v))
         IN IF Truthy(q) THEN Append(out, EvidenceItem(default_chunk_id, q)) ELSE out
    [] OTHER ->
         LET q == PStr(Strip(PyStr(item).v))
         IN IF Truthy(q) THEN Append(out, EvidenceItem(default_chunk_id, q)) ELSE out

RECURSIVE NormalizeEvidenceLoop(_, _, _)
NormalizeEvidenceLoop(out, items, default_chunk_id) ==
  IF items = <<>> THEN out
  ELSE NormalizeEvidenceLoop(NormalizeEvidenceItem(out, Head(items), default_chunk_id),
                             Tail(items), default_chunk_id)

\* _normalize_evidence(ev, default_chunk_id), as a sequence of evidence items
NormalizeEvidence(ev, default_chunk_id) ==
  NormalizeEvidenceLoop(<<>>, AsList(ev), default_chunk_id)

RECURSIVE MergeEvidenceLoop(_, _)
MergeEvidenceLoop(existing, new) ==
  IF new = <<>> THEN existing
  ELSE LET e == Head(new)
           seen == \E i \in DOMAIN existing :
                     /\ existing[i].v.chunk_id = e.v.chunk_id
                     /\ existing[i].v.quote = e.v.quote
       IN MergeEvidenceLoop(IF seen THEN existing ELSE Append(existing, e), Tail(new))

\* merge_evidence(existing_ev, new_ev, default_chunk_id), as a PList
MergeEvidence(existing_ev, new_ev, default_chunk_id) ==
  PList(MergeEvidenceLoop(NormalizeEvidence(existing_ev, default_chunk_id),
                          NormalizeEvidence(new_ev, default_chunk_id)))

\* The description after a later sighting (lines 106-109): "" when the test
\* raises TypeError, which DescTestRaises tells.
DescTestRaises(old_desc, new_desc) ==
  /\ Truthy(new_desc)
  /\ Truthy(old_desc)
  /\ ~(HasLen(new_desc) /\ HasLen(old_desc))

\* MergedDesc with the latest non-empty description winning.
MergedDescLatest(old_desc, new_desc) ==
  IF Truthy(new_desc) THEN new_desc ELSE old_desc

MergedDesc(old_desc, new_desc) ==
  IF Truthy(new_desc) /\ (~Truthy(old_desc) \/ PyLen(new_desc) > PyLen(old_desc))
  THEN new_desc
  ELSE old_desc

\* The entry of a key at a later sighting (lines 105-115): description and
\* evidence merged, or the exception the description test raises.
LaterSighting(cur, item, cp_chunk_id) ==
  LET old_desc == Or(Get(cur, "description", EmptyStr), EmptyStr)
      new_desc == Or(Get(item, "description", EmptyStr), EmptyStr)
  IN IF DescTestRaises(old_desc, new_desc) THEN Raise("TypeError")
     ELSE SetItem(SetItem(cur, "description", MergedDesc(old_desc, new_desc)),
                  "evidence",
                  MergeEvidence(Get(cur, "evidence", EmptyList),
                                Get(item, "evidence", EmptyList), cp_chunk_id))

\* a < b as sorted() compares two values of the same type (str or int).
PyLess(a, b) ==
  IF a.k = "str" THEN StrLess(a.v, b.v)
  ELSE Len(a.v) < Len(b.v) \/ (Len(a.v) = Len(b.v) /\ StrLess(a.v, b.v))

RECURSIVE SortSet(_)
SortSet(S) ==
  IF S = {} THEN <<>>
  ELSE LET m == CHOOSE m \in S : \A o \in S \ {m} : PyLess(m, o)
       IN <<m>> \o SortSet(S \ {m})

\* sorted(set(a) | set(b)) of two lists: TypeError for an unhashable item, or
\* for items sorted() cannot compare.
SortedUnion(a, b) ==
  LET items == a \o b
      S == {items[i] : i \in DOMAIN items}
  IN IF \E i \in DOMAIN items : ~Hashable(items[i]) THEN Raise("TypeError")
     ELSE IF Cardinality(S) <= 1 THEN PList(SetToSeq(S))
     ELSE IF \E y \in S : y.k = "none" THEN Raise("TypeError")
     ELSE IF \E y, z \in S : y.k # z.k THEN Raise("TypeError")
     ELSE PList(SortSet(S))

\* The fold state of aggregate_chunk_proposals: err is the exception raised
\* so far ("" for none).
AggStart ==
  [err |-> "", classes |-> <<>>, dprops |-> <<>>, oprops |-> <<>>,
   events |-> <<>>, warnings |-> <<>>, merges |-> <<>>]

\* One iteration of the loop over classes (lines 90-115).
AggClass(st, c, cp_chunk_id) ==
  IF st.err # "" \/ c.k # "dict" THEN st
  ELSE LET name == Get(c, "name", PNone) IN
  IF ~Truthy(name) THEN st
  ELSE LET key == AggKey(name) IN
  IF IsRaise(key) THEN [st EXCEPT !.err = key.v]
  ELSE IF ~MHas(st.classes, key.v)
  THEN [st EXCEPT !.classes = MSet(@, key.v, PDict(
          [name |-> name,
           description |-> Or(Get(c, "description", EmptyStr), EmptyStr),
           evidence |-> PList(NormalizeEvidence(Get(c, "evidence", EmptyList),
                                                cp_chunk_id))]))]
  ELSE LET merged == LaterSighting(MGet(st.classes, key.v), c, cp_chunk_id) IN
       IF IsRaise(merged) THEN [st EXCEPT !.err = merged.v]
       ELSE [st EXCEPT !.classes = MSet(@, key.v, merged)]

\* AggPropKey without the range in the key.
AggPropKeyNoRange(dom, name, rng) ==
  LET kd == AggKey(dom)
      kn == AggKey(name)
  IN IF IsRaise(kd) THEN kd
     ELSE IF IsRaise(kn) THEN kn
     ELSE PList(<<kd.v, kn.v, <<>> >>)

\* The key of a property (lines 124, 152), or the exception _key raises.
AggPropKey(dom, name, rng) ==
  LET kd == AggKey(dom)
      kn == AggKey(name)
      kr == AggKey(rng)
  IN IF IsRaise(kd) THEN kd
     ELSE IF IsRaise(kn) THEN kn
     ELSE IF IsRaise(kr) THEN kr
     ELSE PList(<<kd.v, kn.v, kr.v>>)

\* One iteration of a loop over properties (lines 118-143, 146-171): the new
\* map of the properties, or the exception.
AggPropInto(map, p, cp_chunk_id) ==
  IF p.k # "dict" THEN PList(map)
  ELSE LET dom == Get(p, "domain", PNone)
           name == Get(p, "name", PNone)
           rng == Get(p, "range", PNone)
       IN
  IF ~Truthy(dom) \/ ~Truthy(name) \/ ~Truthy(rng) THEN PList(map)
  ELSE LET key == AggPropKey(dom, name, rng) IN
  IF IsRaise(key) THEN key
  ELSE IF ~MHas(map, key.v)
  THEN PList(MSet(map, key.v, PDict(
          [name |-> name, domain |-> dom, range |-> rng,
           description |-> Or(Get(p, "description", EmptyStr), EmptyStr),
           evidence |-> PList(NormalizeEvidence(Get(p, "evidence", EmptyList),
                                                cp_chunk_id))])))
  ELSE LET merged == LaterSighting(MGet(map, key.v), p, cp_chunk_id) IN
       IF IsRaise(merged) THEN merged ELSE PList(MSet(map, key.v, merged))

AggDatatypeProperty(st, p, cp_chunk_id) ==
  IF st.err # "" THEN st
  ELSE LET r == AggPropInto(st.dprops, p, cp_chunk_id) IN
       IF IsRaise(r) THEN [st EXCEPT !.err = r.v] ELSE [st EXCEPT !.dprops = r.v]

AggObjectProperty(st, p, cp_chunk_id) ==
  IF st.err # "" THEN st
  ELSE LET r == AggPropInto(st.oprops, p, cp_chunk_id) IN
       IF IsRaise(r) THEN [st EXCEPT !.err = r.v] ELSE [st EXCEPT !.oprops = r.v]

\* One iteration of the loop over events (lines 174-201).
AggEvent(st, ev, cp_chunk_id) ==
  IF st.err # "" \/ ev.k # "dict" THEN st
  ELSE LET name == Get(ev, "name", PNone) IN
  IF ~Truthy(name) THEN st
  ELSE LET key == AggKey(name) IN
  IF IsRaise(key) THEN [st EXCEPT !.err = key.v]
  ELSE IF ~MHas(st.events, key.v)
  THEN [st EXCEPT !.events = MSet(@, key.v, PDict(
          [name |-> name,
           actors |-> PList(AsList(Get(ev, "actors", EmptyList))),
           effects |-> PList(AsList(Get(ev, "effects", EmptyList))),
           description |-> Or(Get(ev, "description", EmptyStr), EmptyStr),
           evidence |-> PList(NormalizeEvidence(Get(ev, "evidence", EmptyList),
                                                cp_chunk_id))]))]
  ELSE LET cur == MGet(st.events, key.v)
           actors == SortedUnion(Get(cur, "actors", EmptyList).v,
                                 AsList(Get(ev, "actors", EmptyList)))
           effects == SortedUnion(Get(cur, "effects", EmptyList).v,
                                  AsList(Get(ev, "effects", EmptyList)))
       IN
       IF IsRaise(actors) THEN [st EXCEPT !.err = actors.v]
       ELSE IF IsRaise(effects) THEN [st EXCEPT !.err = effects.v]
       ELSE LET merged == LaterSighting(
                  SetItem(SetItem(cur, "actors", actors), "effects", effects),
                  ev, cp_chunk_id)
            IN IF IsRaise(merged) THEN [st EXCEPT !.err = merged.v]
               ELSE [st EXCEPT !.events = MSet(@, key.v, merged)]

RECURSIVE AggClasses(_, _, _)
AggClasses(st, items, cp_chunk_id) ==
  IF items = <<>> THEN st
  ELSE AggClasses(AggClass(st, Head(items), cp_chunk_id), Tail(items), cp_chunk_id)

RECURSIVE AggDatatypeProperties(_, _, _)
AggDatatypeProperties(st, items, cp_chunk_id) ==
  IF items = <<>> THEN st
  ELSE AggDatatypeProperties(AggDatatypeProperty(st, Head(items), cp_chunk_id),
                             Tail(items), cp_chunk_id)

RECURSIVE AggObjectProperties(_, _, _)
AggObjectProperties(st, items, cp_chunk_id) ==
  IF items = <<>> THEN st
  ELSE AggObjectProperties(AggObjectProperty(st, Head(items), cp_chunk_id),
                           Tail(items), cp_chunk_id)

RECURSIVE AggEvents(_, _, _)
AggEvents(st, items, cp_chunk_id) ==
  IF items = <<>> THEN st
  ELSE AggEvents(AggEvent(st, Head(items), cp_chunk_id), Tail(items), cp_chunk_id)

\* One iteration of the loop over the chunk proposals (lines 81-201).
AggChunk(st, cp) ==
  IF st.err # "" THEN st
  ELSE LET cp_chunk_id == PyStr(Or(Get(cp, "chunk_id", PNone), EmptyStr))
           st1 == [st EXCEPT
                     !.warnings = @ \o AsList(Get(cp, "warnings", EmptyList)),
                     !.merges = @ \o AsList(Get(cp, "alias_or_merge_suggestions",
                                                EmptyList))]
           add == Or(Get(cp, "proposed_additions", PDict(<<>>)), PDict(<<>>))
       IN
  IF add.k # "dict" THEN [st1 EXCEPT !.err = "AttributeError"]
  ELSE AggEvents(
         AggObjectProperties(
           AggDatatypeProperties(
             AggClasses(st1, AsList(Get(add, "classes", EmptyList)), cp_chunk_id),
             AsList(Get(add, "datatype_properties", EmptyList)), cp_chunk_id),
           AsList(Get(add, "object_properties", EmptyList)), cp_chunk_id),
         AsList(Get(add, "events", EmptyList)), cp_chunk_id)

RECURSIVE AggChunks(_, _)
AggChunks(st, chunk_props) ==
  IF chunk_props = <<>> THEN st
  ELSE AggChunks(AggChunk(st, Head(chunk_props)), Tail(chunk_props))

\* The stable dedup of the warnings (lines 204-212).
RECURSIVE AggWarningsOut(_, _)
AggWarningsOut(out, warnings) ==
  IF warnings = <<>> THEN out
  ELSE LET w == Head(warnings)
           s == PStr(Strip(PyStr(w).v))
       IN AggWarningsOut(
            IF Truthy(w) /\ Truthy(s) /\ ~\E i \in DOMAIN out : out[i] = s
            THEN Append(out, s) ELSE out,
            Tail(warnings))

\* What aggregate_chunk_proposals returns from the fold state st (lines
\* 222-229): the aggregated proposal (a dict), or the exception raised.
AggReturn(st) ==
  IF st.err # "" THEN Raise(st.err)
  ELSE PDict([classes |-> PList(MValues(st.classes)),
              datatype_properties |-> PList(MValues(st.dprops)),
              object_properties |-> PList(MValues(st.oprops)),
              events |-> PList(MValues(st.events)),
              merge_suggestions |-> PList(st.merges),
              warnings |-> PList(AggWarningsOut(<<>>, st.warnings))])

aggregate_chunk_proposals(chunk_props) == AggReturn(AggChunks(AggStart, chunk_props))

(***************************************************************************)
(* schema_card.py                                                          *)
(***************************************************************************)
DT_RANGES ==
  { <<"s","t","r","i","n","g">>, <<"n","u","m","b","e","r">>,
    <<"i","n","t","e","g","e","r">>, <<"b","o","o","l","e","a","n">>,
    <<"d","a","t","e">>, <<"d","a","t","e","t","i","m","e">>,
    <<"e","n","u","m">>, <<"a","n","y">> }

AnyRange == PStr(<<"a","n","y">>)

Induced == PStr(<<"i","n","d","u","c","e","d">>)

DefaultNamespace == PStr(<<"http://www.example.com/biz/">>)

\* _now_iso() at logical time now
NowIso(now) == PStr(<<"t", Ascii[Code("0") + now]>>)

\* _norm(s): (s or "").strip()
Norm(s) == PyStrip(Or(s, EmptyStr))

\* x.lower() for any value x: only a str has the method.
PyLower(x) == IF x.k = "str" THEN PStr(Lower(x.v)) ELSE Raise("AttributeError")

\* _key_class(name)
KeyClass(name) ==
  LET n == Norm(name) IN IF IsRaise(n) THEN n ELSE PStr(Lower(n.v))

\* _key_prop(domain, name, rng): the tuple (as a PList payload), or the exception
KeyProp(domain, name, rng) ==
  LET kd == KeyClass(domain)
      kn == KeyClass(name)
      kr == KeyClass(rng)
  IN IF IsRaise(kd) THEN kd
     ELSE IF IsRaise(kn) THEN kn
     ELSE IF IsRaise(kr) THEN kr
     ELSE PList(<<kd.v, kn.v, kr.v>>)

\* _merge_desc(old, new)
MergeDesc(old, new) ==
  LET o == Norm(old)
      n == Norm(new)
  IN IF IsRaise(o) THEN o
     ELSE IF IsRaise(n) THEN n
     ELSE IF Truthy(o) /\ Truthy(n)
          THEN (IF Len(n.v) > Len(o.v) THEN n ELSE o)
          ELSE Or(n, o)

\* The items a for loop (or list(), set()) draws from x; Iterable(x) tells
\* whether x can be iterated at all (TypeError otherwise).
Iterable(x) == x.k \in {"list", "str", "dict"}

IterItems(x) ==
  CASE x.k = "list" -> x.v
    [] x.k = "str" -> [i \in DOMAIN x.v |-> PStr(<<x.v[i]>>)]
    [] x.k = "dict" -> LET keys == SetToSeq(DOMAIN x.v)
                       IN [i \in DOMAIN keys |-> PStr(<<keys[i]>>)]
    [] OTHER -> <<>>

\* _ensure_schema_card_defaults(schema) at logical time now
EnsureSchemaCardDefaults(schema, now) ==
  LET given == Or(schema, PDict(<<>>))
      defaults == [version |-> NowIso(now),
                   namespace |-> DefaultNamespace,
                   classes |-> EmptyList,
                   datatype_properties |-> EmptyList,
                   object_properties |-> EmptyList,
                   events |-> EmptyList,
                   aliases |-> EmptyList,
                   warnings |-> EmptyList]
  IN PDict([f \in DOMAIN given.v \cup DOMAIN defaults |->
              IF f \in DOMAIN given.v THEN given.v[f] ELSE defaults[f]])

\* ---- CLASSES (lines 66-91) ----
\* MergePrevClass with the class filed in a map of its own, the classes
\* filed before it dropped.
MergePrevClassAlone(map, c) ==
  IF c.k # "dict" THEN Raise("AttributeError")
  ELSE LET key == KeyClass(Get(c, "name", EmptyStr))
           desc == Norm(Get(c, "description", EmptyStr))
       IN IF IsRaise(key) THEN key
          ELSE IF ~Truthy(key) THEN PList(map)
          ELSE IF IsRaise(desc) THEN desc
          ELSE PList(<< <<key.v, PDict(
                 [name |-> Get(c, "name", PNone),
                  description |-> desc,
                  origin |-> Get(c, "origin", EmptyStr)])>> >>)

\* One iteration of the loop over the previous card's classes.
MergePrevClass(map, c) ==
  IF c.k # "dict" THEN Raise("AttributeError")
  ELSE LET key == KeyClass(Get(c, "name", EmptyStr))
           desc == Norm(Get(c, "description", EmptyStr))
       IN IF IsRaise(key) THEN key
          ELSE IF ~Truthy(key) THEN PList(map)
          ELSE IF IsRaise(desc) THEN desc
          ELSE PList(MSet(map, key.v, PDict(
                 [name |-> Get(c, "name", PNone),
                  description |-> desc,
                  origin |-> Get(c, "origin", EmptyStr)])))

\* MergeProposalClass with the origin of a matching class overwritten by the
\* proposal's.
MergeProposalClassOriginOverwritten(map, c) ==
  IF c.k # "dict" THEN Raise("AttributeError")
  ELSE LET key == KeyClass(Get(c, "name", EmptyStr)) IN
  IF IsRaise(key) THEN key
  ELSE IF ~Truthy(key) THEN PList(map)
  ELSE LET desc == IF MHas(map, key.v)
                   THEN MergeDesc(Get(MGet(map, key.v), "description", EmptyStr),
                                  Get(c, "description", EmptyStr))
                   ELSE Norm(Get(c, "description", EmptyStr))
       IN IF IsRaise(desc) THEN desc
          ELSE PList(MSet(map, key.v, PDict(
                 [name |-> IF MHas(map, key.v) THEN MGet(map, key.v).v.name
                           ELSE Get(c, "name", PNone),
                  description |-> desc,
                  origin |-> Get(c, "origin", Induced)])))

\* One iteration of the loop over the proposal's classes.
MergeProposalClass(map, c) ==
  IF c.k # "dict" THEN Raise("AttributeError")
  ELSE LET key == KeyClass(Get(c, "name", EmptyStr)) IN
  IF IsRaise(key) THEN key
  ELSE IF ~Truthy(key) THEN PList(map)
  ELSE IF ~MHas(map, key.v)
  THEN LET desc == Norm(Get(c, "description", EmptyStr)) IN
       IF IsRaise(desc) THEN desc
       ELSE PList(MSet(map, key.v, PDict(
              [name |-> Get(c, "name", PNone),
               description |-> desc,
               origin |-> Get(c, "origin", Induced)])))
  ELSE LET cur == MGet(map, key.v)
           desc == MergeDesc(Get(cur, "description", EmptyStr),
                             Get(c, "description", EmptyStr))
       IN IF IsRaise(desc) THEN desc
          ELSE PList(MSet(map, key.v, SetItem(cur, "description", desc)))

RECURSIVE MergePrevClasses(_, _)
MergePrevClasses(acc, items) ==
  IF IsRaise(acc) \/ items = <<>> THEN acc
  ELSE MergePrevClasses(MergePrevClass(acc.v, Head(items)), Tail(items))

RECURSIVE MergeProposalClasses(_, _)
MergeProposalClasses(acc, items) ==
  IF IsRaise(acc) \/ items = <<>> THEN acc
  ELSE MergeProposalClasses(MergeProposalClass(acc.v, Head(items)), Tail(items))

\* sorted(map.values(), key=lambda x: (x["name"] or "").lower())
SortedByName(map) ==
  LET vals == MValues(map)
      keyed == [i \in DOMAIN vals |->
                  <<PyLower(Or(vals[i].v.name, EmptyStr)), vals[i]>>]
  IN IF \E i \in DOMAIN keyed : IsRaise(keyed[i][1]) THEN Raise("AttributeError")
     ELSE PList(Items(SortPairs([i \in DOMAIN keyed |->
                                   <<(<<keyed[i][1].v>>), keyed[i][2]>>])))

\* out["classes"], or the exception raised on the way
MergedClasses(prev, proposal) ==
  LET from_prev == Get(prev, "classes", EmptyList)
      from_prop == Get(proposal, "classes", EmptyList)
  IN IF ~Iterable(from_prev) THEN Raise("TypeError")
     ELSE LET m1 == MergePrevClasses(PList(<<>>), IterItems(from_prev)) IN
     IF IsRaise(m1) THEN m1
     ELSE IF ~Iterable(from_prop) THEN Raise("TypeError")
     ELSE LET m2 == MergeProposalClasses(m1, IterItems(from_prop)) IN
     IF IsRaise(m2) THEN m2 ELSE SortedByName(m2.v)

\* ---- DATATYPE PROPERTIES (lines 93-134), OBJECT PROPERTIES (136-175) ----
PropEntry(name, dom, rng, desc, origin) ==
  PDict([name |-> name, domain |-> dom, range |-> rng,
         description |-> desc, origin |-> origin])

\* MergePrevDatatypeProperty with the property filed under its domain, name
\* and range as written.
MergePrevDatatypePropertyRawKey(map, p) ==
  IF p.k # "dict" THEN Raise("AttributeError")
  ELSE LET dom == Get(p, "domain", EmptyStr)
           name == Get(p, "name", EmptyStr)
           rng == Get(p, "range", AnyRange)
           key == KeyProp(dom, name, rng)
           desc == Norm(Get(p, "description", EmptyStr))
       IN IF IsRaise(key) THEN key
          ELSE IF key.v[1] = <<>> \/ key.v[2] = <<>> THEN PList(map)
          ELSE IF IsRaise(desc) THEN desc
          ELSE PList(MSet(map, <<dom.v, name.v, rng.v>>,
                 PropEntry(name, dom, rng, desc, Get(p, "origin", EmptyStr))))

\* One iteration of the loop over the previous card's datatype properties.
MergePrevDatatypeProperty(map, p) ==
  IF p.k # "dict" THEN Raise("AttributeError")
  ELSE LET dom == Get(p, "domain", EmptyStr)
           name == Get(p, "name", EmptyStr)
           rng == Get(p, "range", AnyRange)
           key == KeyProp(dom, name, rng)
           desc == Norm(Get(p, "description", EmptyStr))
       IN IF IsRaise(key) THEN key
          ELSE IF key.v[1] = <<>> \/ key.v[2] = <<>> THEN PList(map)
          ELSE IF IsRaise(desc) THEN desc
          ELSE PList(MSet(map, key.v,
                 PropEntry(name, dom, rng, desc, Get(p, "origin", EmptyStr))))

\* The range of a proposal's datatype property as normalized (lines 113-115).
NormalizedRange(p) ==
  LET rng == PyLower(Or(Get(p, "range", AnyRange), AnyRange))
  IN IF IsRaise(rng) THEN rng
     ELSE IF rng.v \notin DT_RANGES THEN AnyRange
     ELSE rng

\* The entry of an existing key with the proposal's description merged in.
WithMergedDesc(cur, p) ==
  LET desc == MergeDesc(Get(cur, "description", EmptyStr),
                        Get(p, "description", EmptyStr))
  IN IF IsRaise(desc) THEN desc ELSE SetItem(cur, "description", desc)

\* MergeProposalDatatypeProperty with the dedup key built from the range as
\* given, the normalized range only stored.
MergeProposalDatatypePropertyRawKey(map, p) ==
  IF p.k # "dict" THEN Raise("AttributeError")
  ELSE LET dom == Get(p, "domain", EmptyStr)
           name == Get(p, "name", EmptyStr)
           rng == NormalizedRange(p)
       IN
  IF IsRaise(rng) THEN rng
  ELSE LET key == KeyProp(dom, name, Get(p, "range", AnyRange)) IN
  IF IsRaise(key) THEN key
  ELSE IF key.v[1] = <<>> \/ key.v[2] = <<>> THEN PList(map)
  ELSE IF ~MHas(map, key.v)
  THEN LET desc == Norm(Get(p, "description", EmptyStr)) IN
       IF IsRaise(desc) THEN desc
       ELSE PList(MSet(map, key.v,
              PropEntry(name, dom, rng, desc, Get(p, "origin", Induced))))
  ELSE LET merged == WithMergedDesc(MGet(map, key.v), p) IN
       IF IsRaise(merged) THEN merged ELSE PList(MSet(map, key.v, merged))

\* One iteration of the loop over the proposal's datatype properties.
MergeProposalDatatypeProperty(map, p) ==
  IF p.k # "dict" THEN Raise("AttributeError")
  ELSE LET dom == Get(p, "domain", EmptyStr)
           name == Get(p, "name", EmptyStr)
           rng == NormalizedRange(p)
       IN
  IF IsRaise(rng) THEN rng
  ELSE LET key == KeyProp(dom, name, rng) IN
  IF IsRaise(key) THEN key
  ELSE IF key.v[1] = <<>> \/ key.v[2] = <<>> THEN PList(map)
  ELSE IF ~MHas(map, key.v)
  THEN LET desc == Norm(Get(p, "description", EmptyStr)) IN
       IF IsRaise(desc) THEN desc
       ELSE PList(MSet(map, key.v,
              PropEntry(name, dom, rng, desc, Get(p, "origin", Induced))))
  ELSE LET merged == WithMergedDesc(MGet(map, key.v), p) IN
       IF IsRaise(merged) THEN merged ELSE PList(MSet(map, key.v, merged))

\* One iteration of the loop over the previous card's object properties.
MergePrevObjectProperty(map, p) ==
  IF p.k # "dict" THEN Raise("AttributeError")
  ELSE LET dom == Get(p, "domain", EmptyStr)
           name == Get(p, "name", EmptyStr)
           rng == Get(p, "range", EmptyStr)
           key == KeyProp(dom, name, rng)
           desc == Norm(Get(p, "description", EmptyStr))
       IN IF IsRaise(key) THEN key
          ELSE IF key.v[1] = <<>> \/ key.v[2] = <<>> \/ key.v[3] = <<>> THEN PList(map)
          ELSE IF IsRaise(desc) THEN desc
          ELSE PList(MSet(map, key.v,
                 PropEntry(name, dom, rng, desc, Get(p, "origin", EmptyStr))))

\* One iteration of the loop over the proposal's object properties.
MergeProposalObjectProperty(map, p) ==
  IF p.k # "dict" THEN Raise("AttributeError")
  ELSE LET dom == Get(p, "domain", EmptyStr)
           name == Get(p, "name", EmptyStr)
           rng == Get(p, "range", EmptyStr)
           key == KeyProp(dom, name, rng)
       IN
  IF IsRaise(key) THEN key
  ELSE IF key.v[1] = <<>> \/ key.v[2] = <<>> \/ key.v[3] = <<>> THEN PList(map)
  ELSE IF ~MHas(map, key.v)
  THEN LET desc == Norm(Get(p, "description", EmptyStr)) IN
       IF IsRaise(desc) THEN desc
       ELSE PList(MSet(map, key.v,
              PropEntry(name, dom, rng, desc, Get(p, "origin", Induced))))
  ELSE LET merged == WithMergedDesc(MGet(map, key.v), p) IN
       IF IsRaise(merged) THEN merged ELSE PList(MSet(map, key.v, merged))

RECURSIVE MergePrevDatatypeProperties(_, _)
MergePrevDatatypeProperties(acc, items) ==
  IF IsRaise(acc) \/ items = <<>> THEN acc
  ELSE MergePrevDatatypeProperties(MergePrevDatatypeProperty(acc.v, Head(items)),
                                   Tail(items))

RECURSIVE MergeProposalDatatypeProperties(_, _)
MergeProposalDatatypeProperties(acc, items) ==
  IF IsRaise(acc) \/ items = <<>> THEN acc
  ELSE MergeProposalDatatypeProperties(
         MergeProposalDatatypeProperty(acc.v, Head(items)), Tail(items))

RECURSIVE MergePrevObjectProperties(_, _)
MergePrevObjectProperties(acc, items) ==
  IF IsRaise(acc) \/ items = <<>> THEN acc
  ELSE MergePrevObjectProperties(MergePrevObjectProperty(acc.v, Head(items)),
                                 Tail(items))

RECURSIVE MergeProposalObjectProperties(_, _)
MergeProposalObjectProperties(acc, items) ==
  IF IsRaise(acc) \/ items = <<>> THEN acc
  ELSE MergeProposalObjectProperties(
         MergeProposalObjectProperty(acc.v, Head(items)), Tail(items))

\* sorted(map.values(), key=lambda x: (x["domain"].lower(), x["name"].lower(),
\*                                     x["range"].lower()))
SortedByDomainNameRange(map) ==
  LET vals == MValues(map)
      d == [i \in DOMAIN vals |-> PyLower(vals[i].v.domain)]
      n == [i \in DOMAIN vals |-> PyLower(vals[i].v.name)]
      r == [i \in DOMAIN vals |-> PyLower(vals[i].v.range)]
  IN IF \E i \in DOMAIN vals : IsRaise(d[i]) \/ IsRaise(n[i]) \/ IsRaise(r[i])
     THEN Raise("AttributeError")
     ELSE PList(Items(SortPairs([i \in DOMAIN vals |->
                                   <<(<<d[i].v, n[i].v, r[i].v>>), vals[i]>>])))

\* out["datatype_properties"], or the exception raised on the way
MergedDatatypeProperties(prev, proposal) ==
  LET from_prev == Get(prev, "datatype_properties", EmptyList)
      from_prop == Get(proposal, "datatype_properties", EmptyList)
  IN IF ~Iterable(from_prev) THEN Raise("TypeError")
     ELSE LET m1 == MergePrevDatatypeProperties(PList(<<>>), IterItems(from_prev)) IN
     IF IsRaise(m1) THEN m1
     ELSE IF ~Iterable(from_prop) THEN Raise("TypeError")
     ELSE LET m2 == MergeProposalDatatypeProperties(m1, IterItems(from_prop)) IN
     IF IsRaise(m2) THEN m2 ELSE SortedByDomainNameRange(m2.v)

\* out["object_properties"], or the exception raised on the way
MergedObjectProperties(prev, proposal) ==
  LET from_prev == Get(prev, "object_properties", EmptyList)
      from_prop == Get(proposal, "object_properties", EmptyList)
  IN IF ~Iterable(from_prev) THEN Raise("TypeError")
     ELSE LET m1 == MergePrevObjectProperties(PList(<<>>), IterItems(from_prev)) IN
     IF IsRaise(m1) THEN m1
     ELSE IF ~Iterable(from_prop) THEN Raise("TypeError")
     ELSE LET m2 == MergeProposalObjectProperties(m1, IterItems(from_prop)) IN
     IF IsRaise(m2) THEN m2 ELSE SortedByDomainNameRange(m2.v)

\* ---- EVENTS (lines 177-210) ----
\* The entry built for an event e seen for the first time (lines 183-189,
\* 196-202), with the origin given when e has none.
NewEvent(e, default_origin) ==
  LET actors == Get(e, "actors", EmptyList)
      effects == Get(e, "effects", EmptyList)
      desc == IF HasKey(e, "description")
              THEN Norm(Get(e, "description", EmptyStr)) ELSE EmptyStr
  IN IF ~Iterable(actors) \/ ~Iterable(effects) THEN Raise("TypeError")
     ELSE IF IsRaise(desc) THEN desc
     ELSE PDict([name |-> Get(e, "name", PNone),
                 actors |-> PList(IterItems(actors)),
                 effects |-> PList(IterItems(effects)),
                 description |-> desc,
                 origin |-> Get(e, "origin", default_origin)])

\* One iteration of the loop over the previous card's events.
MergePrevEvent(map, e) ==
  IF e.k # "dict" THEN Raise("AttributeError")
  ELSE LET key == KeyClass(Get(e, "name", EmptyStr)) IN
  IF IsRaise(key) THEN key
  ELSE IF ~Truthy(key) THEN PList(map)
  ELSE LET entry == NewEvent(e, EmptyStr) IN
       IF IsRaise(entry) THEN entry ELSE PList(MSet(map, key.v, entry))

\* MergedEvent with the actors of e taking the place of the actors so far.
MergedEventLatestActors(cur, e) ==
  LET new_actors == Get(e, "actors", EmptyList)
      new_effects == Get(e, "effects", EmptyList)
  IN IF ~Iterable(new_actors) THEN Raise("TypeError")
     ELSE LET actors == SortedUnion(<<>>, IterItems(new_actors)) IN
     IF IsRaise(actors) THEN actors
     ELSE IF ~Iterable(new_effects) THEN Raise("TypeError")
     ELSE LET effects == SortedUnion(cur.v.effects.v, IterItems(new_effects)) IN
     IF IsRaise(effects) THEN effects
     ELSE LET merged == SetItem(SetItem(cur, "actors", actors), "effects", effects) IN
          IF HasKey(e, "description") THEN WithMergedDesc(merged, e) ELSE merged

\* The entry of an existing event with e merged in (lines 205-208).
MergedEvent(cur, e) ==
  LET new_actors == Get(e, "actors", EmptyList)
      new_effects == Get(e, "effects", EmptyList)
  IN IF ~Iterable(new_actors) THEN Raise("TypeError")
     ELSE LET actors == SortedUnion(cur.v.actors.v, IterItems(new_actors)) IN
     IF IsRaise(actors) THEN actors
     ELSE IF ~Iterable(new_effects) THEN Raise("TypeError")
     ELSE LET effects == SortedUnion(cur.v.effects.v, IterItems(new_effects)) IN
     IF IsRaise(effects) THEN effects
     ELSE LET merged == SetItem(SetItem(cur, "actors", actors), "effects", effects) IN
          IF HasKey(e, "description") THEN WithMergedDesc(merged, e) ELSE merged

\* One iteration of the loop over the proposal's events.
MergeProposalEvent(map, e) ==
  IF e.k # "dict" THEN Raise("AttributeError")
  ELSE LET key == KeyClass(Get(e, "name", EmptyStr)) IN
  IF IsRaise(key) THEN key
  ELSE IF ~Truthy(key) THEN PList(map)
  ELSE LET entry == IF MHas(map, key.v) THEN MergedEvent(MGet(map, key.v), e)
                    ELSE NewEvent(e, Induced)
       IN IF IsRaise(entry) THEN entry ELSE PList(MSet(map, key.v, entry))

RECURSIVE MergePrevEvents(_, _)
MergePrevEvents(acc, items) ==
  IF IsRaise(acc) \/ items = <<>> THEN acc
  ELSE MergePrevEvents(MergePrevEvent(acc.v, Head(items)), Tail(items))

RECURSIVE MergeProposalEvents(_, _)
MergeProposalEvents(acc, items) ==
  IF IsRaise(acc) \/ items = <<>> THEN acc
  ELSE MergeProposalEvents(MergeProposalEvent(acc.v, Head(items)), Tail(items))

\* out["events"], or the exception raised on the way
MergedEvents(prev, proposal) ==
  LET from_prev == Get(prev, "events", EmptyList)
      from_prop == Get(proposal, "events", EmptyList)
  IN IF ~Iterable(from_prev) THEN Raise("TypeError")
     ELSE LET m1 == MergePrevEvents(PList(<<>>), IterItems(from_prev)) IN
     IF IsRaise(m1) THEN m1
     ELSE IF ~Iterable(from_prop) THEN Raise("TypeError")
     ELSE LET m2 == MergeProposalEvents(m1, IterItems(from_prop)) IN
     IF IsRaise(m2) THEN m2 ELSE SortedByName(m2.v)

\* ---- ALIASES / MERGES (lines 212-230) ----
\* norm_names of add_alias (line 217), or the exception
RECURSIVE NormNames(_, _)
NormNames(acc, names) ==
  IF IsRaise(acc) \/ names = <<>> THEN acc
  ELSE LET n == Norm(Head(names)) IN
       NormNames(IF IsRaise(n) THEN n
                 ELSE IF Truthy(n) THEN PList(Append(acc.v, n)) ELSE acc,
                 Tail(names))

\* tuple(sorted(n.lower() for n in norm_names)), as a sequence of strings
AliasKey(norm_names) ==
  Items(SortPairs([i \in DOMAIN norm_names |->
                     <<(<<Lower(norm_names[i].v)>>), Lower(norm_names[i].v)>>]))

\* add_alias(names, rationale) on the state st = [aliases, seen]: the state
\* after the call (a PList payload), or the exception.
AddAlias(st, names, rationale) ==
  IF ~Iterable(names) THEN Raise("TypeError")
  ELSE LET norm_names == NormNames(PList(<<>>), IterItems(names)) IN
  IF IsRaise(norm_names) THEN norm_names
  ELSE LET key == AliasKey(norm_names.v) IN
  IF norm_names.v = <<>> \/ key \in st.seen THEN PList(st)
  ELSE LET r == Norm(rationale) IN
       IF IsRaise(r) THEN r
       ELSE PList([aliases |-> Append(st.aliases,
                                      PDict([names |-> norm_names, rationale |-> r])),
                   seen |-> st.seen \cup {key}])

RECURSIVE AddAliases(_, _)
AddAliases(acc, items) ==
  IF IsRaise(acc) \/ items = <<>> THEN acc
  ELSE LET a == Head(items) IN
       AddAliases(IF a.k # "dict" THEN Raise("AttributeError")
                  ELSE AddAlias(acc.v, Get(a, "names", EmptyList),
                                Get(a, "rationale", EmptyStr)),
                  Tail(items))

\* out["aliases"], or the exception raised on the way
MergedAliases(prev, proposal) ==
  LET from_prev == Get(prev, "aliases", EmptyList)
      from_prop == Get(proposal, "merge_suggestions", EmptyList)
  IN IF ~Iterable(from_prev) THEN Raise("TypeError")
     ELSE LET a1 == AddAliases(PList([aliases |-> <<>>, seen |-> {}]),
                               IterItems(from_prev)) IN
     IF IsRaise(a1) THEN a1
     ELSE IF ~Iterable(from_prop) THEN Raise("TypeError")
     ELSE LET a2 == AddAliases(a1, IterItems(from_prop)) IN
     IF IsRaise(a2) THEN a2 ELSE PList(a2.v.aliases)

\* ---- WARNINGS (lines 232-249) ----
\* [_norm(w) for w in warnings if _norm(w)], or the exception
RECURSIVE NormWarnings(_, _)
NormWarnings(acc, warnings) ==
  IF IsRaise(acc) \/ warnings = <<>> THEN acc
  ELSE LET w == Norm(Head(warnings)) IN
       NormWarnings(IF IsRaise(w) THEN w
                    ELSE IF Truthy(w) THEN PList(Append(acc.v, w)) ELSE acc,
                    Tail(warnings))

UnknownDomainWarning(kind, p) ==
  PStr(<<kind, " ">> \o p.v.name.v \o <<" refers to unknown domain class ">>
       \o p.v.domain.v \o <<".">>)

UnknownRangeWarning(kind, p) ==
  PStr(<<kind, " ">> \o p.v.name.v \o <<" refers to unknown range class ">>
       \o p.v.range.v \o <<".">>)

\* {c["name"].lower() for c in classes if c.get("name")} (line 238)
ClassNamesLower(classes) ==
  {Lower(classes[i].v.name.v) : i \in {j \in DOMAIN classes : Truthy(classes[j].v.name)}}

\* The warnings the sanity check appends for the datatype properties (239-241).
RECURSIVE DatatypeSanityWarnings(_, _)
DatatypeSanityWarnings(props, class_names_lower) ==
  IF props = <<>> THEN <<>>
  ELSE LET p == Head(props) IN
       (IF Truthy(p.v.domain) /\ Lower(p.v.domain.v) \notin class_names_lower
        THEN <<UnknownDomainWarning("DatatypeProperty", p)>> ELSE <<>>)
       \o DatatypeSanityWarnings(Tail(props), class_names_lower)

\* ObjectSanityWarnings checking the domain only.
RECURSIVE ObjectSanityWarningsDomainOnly(_, _)
ObjectSanityWarningsDomainOnly(props, class_names_lower) ==
  IF props = <<>> THEN <<>>
  ELSE LET p == Head(props) IN
       (IF Truthy(p.v.domain) /\ Lower(p.v.domain.v) \notin class_names_lower
        THEN <<UnknownDomainWarning("ObjectProperty", p)>> ELSE <<>>)
       \o ObjectSanityWarningsDomainOnly(Tail(props), class_names_lower)

\* The warnings the sanity check appends for the object properties (242-246).
RECURSIVE ObjectSanityWarnings(_, _)
ObjectSanityWarnings(props, class_names_lower) ==
  IF props = <<>> THEN <<>>
  ELSE LET p == Head(props) IN
       (IF Truthy(p.v.domain) /\ Lower(p.v.domain.v) \notin class_names_lower
        THEN <<UnknownDomainWarning("ObjectProperty", p)>> ELSE <<>>)
       \o (IF Truthy(p.v.range) /\ Lower(p.v.range.v) \notin class_names_lower
           THEN <<UnknownRangeWarning("ObjectProperty", p)>> ELSE <<>>)
       \o ObjectSanityWarnings(Tail(props), class_names_lower)

\* out["warnings"] given the merged classes and properties, or the exception
MergedWarnings(prev, proposal, classes, dprops, oprops) ==
  LET from_prev == Get(prev, "warnings", EmptyList)
      from_prop == Get(proposal, "warnings", EmptyList)
  IN IF ~Iterable(from_prev) \/ ~Iterable(from_prop) THEN Raise("TypeError")
     ELSE LET carried == NormWarnings(PList(<<>>),
                                      IterItems(from_prev) \o IterItems(from_prop))
     IN IF IsRaise(carried) THEN carried
        ELSE LET names == ClassNamesLower(classes.v) IN
             PList(DedupSeq(DedupSeq(carried.v)
                            \o DatatypeSanityWarnings(dprops.v, names)
                            \o ObjectSanityWarnings(oprops.v, names)))

\* The card returned (lines 251-263), or the exception of the warnings.
MergedCard(ns, now, classes, dprops, oprops, events, aliases, warnings) ==
  IF IsRaise(warnings) THEN warnings
  ELSE PDict([version |-> NowIso(now),
              namespace |-> ns,
              classes |-> classes,
              datatype_properties |-> dprops,
              object_properties |-> oprops,
              events |-> events,
              aliases |-> aliases,
              warnings |-> warnings])

\* The card of the merged lists, or the first exception raised building them.
MergedLists(prev, proposal, ns, now, classes, dprops, oprops, events, aliases) ==
  IF IsRaise(classes) THEN classes
  ELSE IF IsRaise(dprops) THEN dprops
  ELSE IF IsRaise(oprops) THEN oprops
  ELSE IF IsRaise(events) THEN events
  ELSE IF IsRaise(aliases) THEN aliases
  ELSE MergedCard(ns, now, classes, dprops, oprops, events, aliases,
                  MergedWarnings(prev, proposal, classes, dprops, oprops))

\* The merge into prev, the previous card with its defaults (lines 56-263).
MergeInto(prev, proposal, namespace, now) ==
  IF ~HasLen(Get(prev, "classes", EmptyList))
     \/ ~HasLen(Get(proposal, "classes", EmptyList))
  THEN Raise("TypeError")
  ELSE MergedLists(prev, proposal,
                   Or(namespace, Or(Get(prev, "namespace", PNone), DefaultNamespace)),
                   now,
                   MergedClasses(prev, proposal),
                   MergedDatatypeProperties(prev, proposal),
                   MergedObjectProperties(prev, proposal),
                   MergedEvents(prev, proposal),
                   MergedAliases(prev, proposal))

\* schema_card_from_proposal(previous_schema_card, aggregated_proposal,
\* namespace) called at logical time now: the new card, or the exception.
schema_card_from_proposal(previous_schema_card, aggregated_proposal, namespace, now) ==
  IF aggregated_proposal.k # "dict" THEN Raise("AttributeError")
  ELSE MergeInto(EnsureSchemaCardDefaults(previous_schema_card, now),
                 aggregated_proposal, namespace, now)

(***************************************************************************)
(* ontology_catalog.py                                                     *)
(*                                                                         *)
(* An RDF graph is the sequence of its triples <<s, p, o>> in the order    *)
(* the parser added them (the order rdflib's store iterates in), without   *)
(* repeats; a node is [k |-> "uri" | "bnode" | "literal", v |-> its text]. *)
(***************************************************************************)
Uri(s) == [k |-> "uri", v |-> s]

BNode(s) == [k |-> "bnode", v |-> s]

Literal(s) == [k |-> "literal", v |-> s]

RDF_type == Uri(<<"rdf:type">>)

RDFS_Class == Uri(<<"rdfs:Class">>)

RDFS_domain == Uri(<<"rdfs:domain">>)

RDFS_range == Uri(<<"rdfs:range">>)

RDFS_comment == Uri(<<"rdfs:comment">>)

OWL_Class == Uri(<<"owl:Class">>)

OWL_DatatypeProperty == Uri(<<"owl:DatatypeProperty">>)

OWL_ObjectProperty == Uri(<<"owl:ObjectProperty">>)

\* str(XSD.<local>)
XsdIri(local) == <<"http://www.w3.org/2001/XMLSchema", "#">> \o local

\* _XSD_RANGE_MAP, as <<key, value>> pairs
XSD_RANGE_MAP ==
  <<
     <<XsdIri(<<"s","t","r","i","n","g">>), <<"s","t","r","i","n","g">>>>,
     <<XsdIri(<<"n","o","r","m","a","l","i","z","e","d","S","t","r","i","n","g">>), <<"s","t","r","i","n","g">>>>,
     <<XsdIri(<<"t","o","k","e","n">>), <<"s","t","r","i","n","g">>>>,
     <<XsdIri(<<"l","a","n","g","u","a","g","e">>), <<"s","t","r","i","n","g">>>>,
     <<XsdIri(<<"N","a","m","e">>), <<"s","t","r","i","n","g">>>>,
     <<XsdIri(<<"a","n","y","U","R","I">>), <<"s","t","r","i","n","g">>>>,
     <<XsdIri(<<"i","n","t","e","g","e","r">>), <<"i","n","t","e","g","e","r">>>>,
     <<XsdIri(<<"i","n","t">>), <<"i","n","t","e","g","e","r">>>>,
     <<XsdIri(<<"l","o","n","g">>), <<"i","n","t","e","g","e","r">>>>,
     <<XsdIri(<<"s","h","o","r","t">>), <<"i","n","t","e","g","e","r">>>>,
     <<XsdIri(<<"b","y","t","e">>), <<"i","n","t","e","g","e","r">>>>,
     <<XsdIri(<<"n","o","n","N","e","g","a","t","i","v","e","I","n","t","e","g","e","r">>), <<"i","n","t","e","g","e","r">>>>,
     <<XsdIri(<<"p","o","s","i","t","i","v","e","I","n","t","e","g","e","r">>), <<"i","n","t","e","g","e","r">>>>,
     <<XsdIri(<<"n","o","n","P","o","s","i","t","i","v","e","I","n","t","e","g","e","r">>), <<"i","n","t","e","g","e","r">>>>,
     <<XsdIri(<<"n","e","g","a","t","i","v","e","I","n","t","e","g","e","r">>), <<"i","n","t","e","g","e","r">>>>,
     <<XsdIri(<<"u","n","s","i","g","n","e","d","I","n","t">>), <<"i","n","t","e","g","e","r">>>>,
     <<XsdIri(<<"u","n","s","i","g","n","e","d","L","o","n","g">>), <<"i","n","t","e","g","e","r">>>>,
     <<XsdIri(<<"d","e","c","i","m","a","l">>), <<"n","u","m","b","e","r">>>>,
     <<XsdIri(<<"f","l","o","a","t">>), <<"n","u","m","b","e","r">>>>,
     <<XsdIri(<<"d","o","u","b","l","e">>), <<"n","u","m","b","e","r">>>>,
     <<XsdIri(<<"b","o","o","l","e","a","n">>), <<"b","o","o","l","e","a","n">>>>,
     <<XsdIri(<<"d","a","t","e">>), <<"d","a","t","e">>>>,
     <<XsdIri(<<"d","a","t","e","T","i","m","e">>), <<"d","a","t","e","t","i","m","e">>>>,
     <<XsdIri(<<"d","a","t","e","T","i","m","e","S","t","a","m","p">>), <<"d","a","t","e","t","i","m","e">>>>,
     <<XsdIri(<<"t","i","m","e">>), <<"s","t","r","i","n","g">>>>
  >>

\* _xsd_to_card_range(uri), for the str or None uri
XsdToCardRange(uri) ==
  IF uri.k = "none" THEN AnyRange
  ELSE IF MHas(XSD_RANGE_MAP, uri.v) THEN PStr(MGet(XSD_RANGE_MAP, uri.v))
  ELSE AnyRange

\* s.rfind(c): the last position of character c in s, 0 for none (Python: -1)
RFind(s, c) ==
  IF \E i \in DOMAIN s : s[i] = c
  THEN CHOOSE i \in DOMAIN s : s[i] = c /\ \A j \in DOMAIN s : s[j] = c => j <= i
  ELSE 0

Max(a, b) == IF a >= b THEN a ELSE b

\* _local_name(uri)
LocalName(s) ==
  LET idx == Max(RFind(s, "#"), RFind(s, "/"))
  IN IF idx >= 1 THEN SubSeq(s, idx + 1, Len(s)) ELSE s

\* g.subjects(pred, obj), in store order, without repeats
Subjects(g, pred, obj) ==
  LET hits == SelectSeq(g, LAMBDA t : t[2] = pred /\ t[3] = obj)
  IN DedupSeq([i \in DOMAIN hits |-> hits[i][1]])

\* _first_literal(g, subj, pred): str of the first object, "" for none
FirstLiteral(g, subj, pred) ==
  LET hits == SelectSeq(g, LAMBDA t : t[1] = subj /\ t[2] = pred)
  IN IF hits = <<>> THEN <<>> ELSE hits[1][3].v

\* sorted() of a sequence of nodes, keeping the URIRef nodes only (the loops
\* skip every node that is not a URIRef).
SortedUris(nodes) ==
  LET uris == SelectSeq(DedupSeq(nodes), LAMBDA n : n.k = "uri")
  IN Items(SortPairs([i \in DOMAIN uris |-> <<(<<uris[i].v>>), uris[i]>>]))

\* The classes loop of ttl_to_schema_card (lines 100-111).
RECURSIVE TtlClasses(_, _, _)
TtlClasses(g, uris, slug) ==
  IF uris = <<>> THEN <<>>
  ELSE LET name == LocalName(Head(uris).v) IN
       (IF name = <<>> \/ Head(name) = "_" THEN <<>>
        ELSE << PDict([name |-> PStr(name),
                       description |-> PStr(FirstLiteral(g, Head(uris), RDFS_comment)),
                       origin |-> slug]) >>)
       \o TtlClasses(g, Tail(uris), slug)

\* The datatype properties loop of ttl_to_schema_card (lines 114-130).
RECURSIVE TtlDatatypeProperties(_, _, _)
TtlDatatypeProperties(g, uris, slug) ==
  IF uris = <<>> THEN <<>>
  ELSE LET prop_uri == Head(uris)
           domain == FirstLiteral(g, prop_uri, RDFS_domain)
           rng_raw == FirstLiteral(g, prop_uri, RDFS_range)
       IN << PropEntry(PStr(LocalName(prop_uri.v)),
                       PStr(IF domain # <<>> THEN LocalName(domain) ELSE <<>>),
                       IF rng_raw # <<>> THEN XsdToCardRange(PStr(rng_raw)) ELSE AnyRange,
                       PStr(FirstLiteral(g, prop_uri, RDFS_comment)),
                       slug) >>
          \o TtlDatatypeProperties(g, Tail(uris), slug)

\* The object properties loop of ttl_to_schema_card (lines 133-149).
RECURSIVE TtlObjectProperties(_, _, _)
TtlObjectProperties(g, uris, slug) ==
  IF uris = <<>> THEN <<>>
  ELSE LET prop_uri == Head(uris)
           domain == FirstLiteral(g, prop_uri, RDFS_domain)
           rng == FirstLiteral(g, prop_uri, RDFS_range)
       IN << PropEntry(PStr(LocalName(prop_uri.v)),
                       PStr(IF domain # <<>> THEN LocalName(domain) ELSE <<>>),
                       PStr(IF rng # <<>> THEN LocalName(rng) ELSE <<>>),
                       PStr(FirstLiteral(g, prop_uri, RDFS_comment)),
                       slug) >>
          \o TtlObjectProperties(g, Tail(uris), slug)

\* The namespaces _guess_namespace counts, one per URIRef subject of a triple
\* whose last "#" or "/" is not its first character.
GuessCandidates(g) ==
  LET subj == SelectSeq(g, LAMBDA t :
                t[1].k = "uri" /\ Max(RFind(t[1].v, "#"), RFind(t[1].v, "/")) > 1)
  IN [i \in DOMAIN subj |->
        SubSeq(subj[i][1].v, 1, Max(RFind(subj[i][1].v, "#"), RFind(subj[i][1].v, "/")))]

\* _guess_namespace(g): the first namespace of the highest count
GuessNamespace(g) ==
  LET cand == GuessCandidates(g)
      Count(ns) == Cardinality({i \in DOMAIN cand : cand[i] = ns})
      first == DedupSeq(cand)
  IN IF cand = <<>> THEN <<>>
     ELSE first[CHOOSE i \in DOMAIN first :
                  /\ \A j \in DOMAIN first : Count(first[j]) <= Count(first[i])
                  /\ \A j \in 1..(i - 1) : Count(first[j]) < Count(first[i])]

\* The content of a Turtle file: [k |-> "graph", v |-> triples] is the text
\* of a document with these triples, [k |-> "text", v |-> characters] any
\* other text.
\* g.parse(ttl_path, format="turtle"): the triples (a PList), or the
\* exception; a text of white space is the empty document.
ParseTurtle(content) ==
  IF content.k = "graph" THEN PList(content.v)
  ELSE IF Strip(content.v) = <<>> THEN PList(<<>>)
  ELSE Raise("ParserError")

\* ttl_to_schema_card(ttl_path, slug, namespace) on the file content.
ttl_to_schema_card(content, slug, namespace) ==
  IF IsRaise(ParseTurtle(content)) THEN Raise("ParserError")
  ELSE LET g == ParseTurtle(content).v
           ns == IF namespace.k = "none" THEN PStr(GuessNamespace(g)) ELSE namespace
       IN PDict([namespace |-> Or(ns, EmptyStr),
                 classes |-> PList(TtlClasses(g,
                     SortedUris(Subjects(g, RDF_type, OWL_Class)
                                \o Subjects(g, RDF_type, RDFS_Class)), slug)),
                 datatype_properties |-> PList(TtlDatatypeProperties(g,
                     SortedUris(Subjects(g, RDF_type, OWL_DatatypeProperty)), slug)),
                 object_properties |-> PList(TtlObjectProperties(g,
                     SortedUris(Subjects(g, RDF_type, OWL_ObjectProperty)), slug)),
                 events |-> EmptyList,
                 aliases |-> EmptyList,
                 warnings |-> EmptyList])

\* The catalog directory: catalog_json is the content of catalog.json (PNone
\* when the file does not exist), files the other files as <<path, content>>.
\* load_catalog(catalog_dir)
load_catalog(dir) ==
  IF dir.catalog_json.k = "none" THEN PDict([ontologies |-> EmptyList])
  ELSE dir.catalog_json

\* f"{slug}.ttl"
TtlPath(slug) == slug \o <<".ttl">>

\* {e["slug"]: e for e in catalog.get("ontologies", [])}
RECURSIVE SlugToEntry(_, _)
SlugToEntry(map, entries) ==
  IF entries = <<>> THEN map
  ELSE SlugToEntry(MSet(map, Head(entries).v.slug.v, Head(entries)), Tail(entries))

\* FirstSeenClasses with the last baseline's entry winning.
RECURSIVE FirstSeenClassesLastWins(_, _)
FirstSeenClassesLastWins(seen, items) ==
  IF items = <<>> THEN seen
  ELSE FirstSeenClassesLastWins(MSet(seen, Lower(Head(items).v.name.v), Head(items)),
                                Tail(items))

\* The first-seen-wins fold of one list of a baseline's card into a seen map
\* (lines 282-295); keyed tells the key of an entry.
RECURSIVE FirstSeenClasses(_, _)
FirstSeenClasses(seen, items) ==
  IF items = <<>> THEN seen
  ELSE LET c == Head(items)
           key == Lower(c.v.name.v)
       IN FirstSeenClasses(IF MHas(seen, key) THEN seen ELSE MSet(seen, key, c),
                           Tail(items))

RECURSIVE FirstSeenProps(_, _)
FirstSeenProps(seen, items) ==
  IF items = <<>> THEN seen
  ELSE LET p == Head(items)
           key == <<Lower(p.v.domain.v), Lower(p.v.name.v), Lower(p.v.range.v)>>
       IN FirstSeenProps(IF MHas(seen, key) THEN seen ELSE MSet(seen, key, p),
                         Tail(items))

NotFoundWarning(slug) ==
  PStr(<<"Baseline '">> \o slug \o <<"' not found in catalog.">>)

\* ComposeSlug looking the slug up without the membership test.
ComposeSlugKeyError(st, dir, slug_to_entry, slug) ==
  IF st.err # "" THEN st
  ELSE IF ~MHas(slug_to_entry, slug) THEN [st EXCEPT !.err = "KeyError"]
  ELSE LET entry == MGet(slug_to_entry, slug)
           path == entry.v.path.v
       IN
  IF ~MHas(dir.files, path) THEN [st EXCEPT !.err = "FileNotFoundError"]
  ELSE LET card == ttl_to_schema_card(MGet(dir.files, path), PStr(slug),
                                      Get(entry, "namespace", PNone))
       IN
  IF IsRaise(card) THEN [st EXCEPT !.err = card.v]
  ELSE [st EXCEPT
          !.seen_classes = FirstSeenClasses(@, card.v.classes.v),
          !.seen_dprops = FirstSeenProps(@, card.v.datatype_properties.v),
          !.seen_oprops = FirstSeenProps(@, card.v.object_properties.v)]

\* One iteration of the loop over the slugs (lines 273-295).
ComposeSlug(st, dir, slug_to_entry, slug) ==
  IF st.err # "" THEN st
  ELSE IF ~MHas(slug_to_entry, slug)
  THEN [st EXCEPT !.warnings = Append(@, NotFoundWarning(slug))]
  ELSE LET entry == MGet(slug_to_entry, slug)
           path == entry.v.path.v
       IN
  IF ~MHas(dir.files, path) THEN [st EXCEPT !.err = "FileNotFoundError"]
  ELSE LET card == ttl_to_schema_card(MGet(dir.files, path), PStr(slug),
                                      Get(entry, "namespace", PNone))
       IN
  IF IsRaise(card) THEN [st EXCEPT !.err = card.v]
  ELSE [st EXCEPT
          !.seen_classes = FirstSeenClasses(@, card.v.classes.v),
          !.seen_dprops = FirstSeenProps(@, card.v.datatype_properties.v),
          !.seen_oprops = FirstSeenProps(@, card.v.object_properties.v)]

RECURSIVE ComposeSlugs(_, _, _, _)
ComposeSlugs(st, dir, slug_to_entry, slugs) ==
  IF slugs = <<>> THEN st
  ELSE ComposeSlugs(ComposeSlug(st, dir, slug_to_entry, Head(slugs)),
                    dir, slug_to_entry, Tail(slugs))

\* What compose_baselines(catalog_dir, slugs, target_namespace) returns on
\* the directory dir at logical time now (lines 262-264, 302-312) from the
\* fold state st: the composed card, or the exception.
ComposeReturn(st, merged, target_namespace) ==
  IF st.err # "" THEN Raise(st.err)
  ELSE PDict([version |-> merged.v.version,
              namespace |-> IF Truthy(target_namespace) THEN target_namespace
                            ELSE merged.v.namespace,
              classes |-> SortedByName(st.seen_classes),
              datatype_properties |-> SortedByDomainNameRange(st.seen_dprops),
              object_properties |-> SortedByDomainNameRange(st.seen_oprops),
              events |-> merged.v.events,
              aliases |-> merged.v.aliases,
              warnings |-> PList(st.warnings)])

compose_baselines(dir, slugs, target_namespace, now) ==
  ComposeReturn(
    ComposeSlugs([err |-> "", warnings |-> <<>>, seen_classes |-> <<>>,
                  seen_dprops |-> <<>>, seen_oprops |-> <<>>],
                 dir,
                 SlugToEntry(<<>>, Get(load_catalog(dir), "ontologies", EmptyList).v),
                 slugs),
    EnsureSchemaCardDefaults(PDict(<<>>), now),
    target_namespace)

\* ---- register_ontology (lines 201-247) ----
\* The locals of one call of register_ontology: pc is the statement it
\* stands before ("load", "copy", "detect", "save", "done"); src is the
\* content of the file at ttl_path (PNone when there is no such file);
\* catalog the manifest as loaded; res the entry returned or the exception
\* raised; given the namespace as passed; loaded and saved the times of the
\* load and of the save.
RegStart(slug, src, label, description, namespace, tags) ==
  [pc |-> "load", slug |-> slug, src |-> src, label |-> label,
   description |-> description, namespace |-> namespace, tags |-> tags,
   catalog |-> PNone, res |-> PNone, given |-> namespace,
   loaded |-> 0, saved |-> 0]

\* catalog = load_catalog(catalog_dir) (line 215)
RegLoad(st, t) ==
  [st EXCEPT !.l.catalog = load_catalog(st.dir), !.l.loaded = t, !.l.pc = "copy"]

\* The copy of the TTL file into the catalog (lines 216-222): reading a
\* missing source raises before anything is written.
RegCopy(st) ==
  IF st.l.src.k = "none"
  THEN [st EXCEPT !.l.res = Raise("FileNotFoundError"), !.l.pc = "done"]
  ELSE [st EXCEPT !.dir.files = MSet(@, TtlPath(st.l.slug.v), st.l.src),
                  !.l.pc = IF st.l.namespace.k = "none" THEN "detect" ELSE "save"]

\* The namespace auto-detected from the copied file (lines 225-227).
RegDetect(st) ==
  LET card == ttl_to_schema_card(MGet(st.dir.files, TtlPath(st.l.slug.v)),
                                 st.l.slug, PNone)
  IN IF IsRaise(card) THEN [st EXCEPT !.l.res = card, !.l.pc = "done"]
     ELSE [st EXCEPT !.l.namespace = Get(card, "namespace", EmptyStr),
                     !.l.pc = "save"]

\* The entry of the call (lines 229-236).
RegEntry(l) ==
  PDict([slug |-> l.slug,
         label |-> Or(l.label, l.slug),
         namespace |-> l.namespace,
         description |-> l.description,
         path |-> PStr(TtlPath(l.slug.v)),
         tags |-> Or(l.tags, EmptyList)])

\* sorted by e.get("slug", "") (line 243)
SortedBySlug(entries) ==
  Items(SortPairs([i \in DOMAIN entries |->
                     <<(<<Get(entries[i], "slug", EmptyStr).v>>), entries[i]>>]))

\* Upsert appending the entry without dropping the slug's previous one.
UpsertKeepingOld(catalog, entry) ==
  SetItem(catalog, "ontologies",
          PList(SortedBySlug(Append(Get(catalog, "ontologies", EmptyList).v, entry))))

\* The manifest with the entry in place of any entry of the same slug, sorted
\* by slug (lines 239-243).
Upsert(catalog, entry) ==
  SetItem(catalog, "ontologies",
          PList(SortedBySlug(Append(
            SelectSeq(Get(catalog, "ontologies", EmptyList).v,
                      LAMBDA e : Get(e, "slug", PNone) # entry.v.slug),
            entry))))

\* RegSave saving the entry into the manifest as it is on disk at the save.
RegSaveReloaded(st, t) ==
  [st EXCEPT !.dir.catalog_json = Upsert(load_catalog(st.dir), RegEntry(st.l)),
             !.l.res = RegEntry(st.l), !.l.saved = t, !.l.pc = "done"]

\* The upsert into the manifest loaded at the start, and its save (lines
\* 229-247).
RegSave(st, t) ==
  [st EXCEPT !.dir.catalog_json = Upsert(st.l.catalog, RegEntry(st.l)),
             !.l.res = RegEntry(st.l), !.l.saved = t, !.l.pc = "done"]

\* The next statement of a call, at time t, on st = [dir, l].
RegStep(st, t) ==
  CASE st.l.pc = "load" -> RegLoad(st, t)
    [] st.l.pc = "copy" -> RegCopy(st)
    [] st.l.pc = "detect" -> RegDetect(st)
    [] st.l.pc = "save" -> RegSave(st, t)
    [] OTHER -> st

\* A call run to its end without interruption.
RECURSIVE RegRun(_, _)
RegRun(st, t) == IF st.l.pc = "done" THEN st ELSE RegRun(RegStep(st, t), t)

\* register_ontology(catalog_dir, slug, ttl_path, label, description,
\* namespace, tags) on the directory dir: [dir, l] after the call.
register_ontology(dir, slug, src, label, description, namespace, tags, t) ==
  RegRun([dir |-> dir, l |-> RegStart(slug, src, label, description, namespace, tags)], t)

\* str.strip() of a file content
StripContent(content) ==
  IF content.k = "text" THEN [content EXCEPT !.v = Strip(@)] ELSE content

\* not ttl_content: the content is the empty text
IsEmptyContent(content) == content.k = "text" /\ content.v = <<>>

\* The MCP tool add_ontology(slug, ttl_content, label, description, tags)
\* (ontology_mcp.py, lines 167-203): the content goes through a temporary file.
McpAddOntology(dir, slug, ttl_content, label, description, tags, t) ==
  register_ontology(dir, slug, ttl_content, label, description, PNone, tags, t)

\* POST /ontologies (app.py, lines 212-251): [dir, l] after the request; a
\* slug or content that is empty once trimmed is refused with HTTP 422.
RestAddOntology(dir, slug, ttl_content, label, description, tags, t) ==
  IF Strip(slug.v) = <<>> \/ IsEmptyContent(StripContent(ttl_content))
  THEN [dir |-> dir,
        l |-> [RegStart(slug, ttl_content, label, description, PNone, tags)
                 EXCEPT !.res = Raise("HTTPException"), !.pc = "done"]]
  ELSE register_ontology(dir, PStr(Strip(slug.v)), StripContent(ttl_content),
                         label, description, PNone, tags, t)

(***************************************************************************)
(* instances_to_ttl.py                                                     *)
(***************************************************************************)
RDFS_label == Uri(<<"rdfs:label">>)

PROV_value == Uri(<<"prov:value">>)

PROV_wasDerivedFrom == Uri(<<"prov:wasDerivedFrom">>)

\* MCP.<local>, for MCP = Namespace(namespace + "mcp/")
McpTerm(namespace, local) == Uri(namespace \o <<"mcp/", local>>)

\* hashlib.sha1(base.encode("utf-8")).hexdigest()[:10]: the digest is kept
\* as the text it was computed from (two texts have the same digest when
\* they are the same text; a collision of the 40 bits is not modelled).
Sha1Hex10(base) == <<"sha1:">> \o base

\* StableInstanceIri without the chunk id in the digest.
StableInstanceIriNoChunk(ns, class_name, label, chunk_id) ==
  ns \o class_name \o <<"/">> \o Sha1Hex10(class_name \o <<"|">> \o label)

\* _stable_instance_iri(ns, class_name, label, chunk_id)
StableInstanceIri(ns, class_name, label, chunk_id) ==
  ns \o class_name \o <<"/">>
     \o Sha1Hex10(class_name \o <<"|">> \o label \o <<"|">> \o chunk_id)

\* g.add(t): a graph holds a triple once.
GAdd(g, t) == IF \E i \in DOMAIN g : g[i] = t THEN g ELSE Append(g, t)

RECURSIVE GAddAll(_, _)
GAddAll(g, ts) == IF ts = <<>> THEN g ELSE GAddAll(GAdd(g, Head(ts)), Tail(ts))

\* (x.get(a) or x.get(b) or "").strip()
FirstOf(x, a, b) ==
  Strip(Or(Get(x, a, PNone), Or(Get(x, b, PNone), EmptyStr)).v)

\* The attributes loop (lines 59-65): the triples of instance s.
RECURSIVE AttributeTriples(_, _, _, _)
AttributeTriples(s, attrs, keys, namespace) ==
  IF keys = <<>> THEN <<>>
  ELSE LET prop_name == Strip(<<Head(keys)>>)
           value == attrs.v[Head(keys)]
       IN (IF prop_name = <<>> \/ value = PNone \/ value = EmptyStr THEN <<>>
           ELSE << <<s, Uri(namespace \o prop_name), Literal(PyStr(value).v)>> >>)
          \o AttributeTriples(s, attrs, Tail(keys), namespace)

\* The relations loop (lines 68-82): the triples of instance s.
RECURSIVE RelationTriples(_, _, _, _)
RelationTriples(s, rels, namespace, chunk_id) ==
  IF rels = <<>> THEN <<>>
  ELSE LET rel == Head(rels)
           pred == FirstOf(rel, "predicate", "predicate")
           tgt_cls == FirstOf(rel, "target_class", "target_class")
           tgt_label == FirstOf(rel, "target_label", "target_id_hint")
           t == Uri(StableInstanceIri(namespace, tgt_cls, tgt_label, chunk_id))
       IN (IF pred = <<>> \/ tgt_cls = <<>> THEN <<>>
           ELSE << <<t, RDF_type, Uri(namespace \o tgt_cls)>> >>
                \o (IF tgt_label # <<>>
                    THEN << <<t, RDFS_label, Literal(tgt_label)>> >> ELSE <<>>)
                \o << <<s, Uri(namespace \o pred), t>> >>)
          \o RelationTriples(s, Tail(rels), namespace, chunk_id)

\* The triples of one mention node mn (lines 91-106).
MentionTriples(s, mn, quote, prov, namespace, chunk_id) ==
  << <<mn, RDF_type, McpTerm(namespace, "Mention")>>,
     <<mn, PROV_value, Literal(quote)>>,
     <<mn, McpTerm(namespace, "chunkId"), Literal(chunk_id)>> >>
  \o (IF Truthy(Get(prov, "source_path", PNone))
      THEN << <<mn, McpTerm(namespace, "sourcePath"), Literal(prov.v.source_path.v)>> >>
      ELSE <<>>)
  \o (IF Get(prov, "page", PNone) # PNone
      THEN << <<mn, McpTerm(namespace, "page"), Literal(prov.v.page.v)>> >>
      ELSE <<>>)
  \o (IF Truthy(Get(prov, "page_label", PNone))
      THEN << <<mn, McpTerm(namespace, "pageLabel"),
                Literal(PyStr(prov.v.page_label).v)>> >>
      ELSE <<>>)
  \o (IF Truthy(Get(prov, "section", PNone))
      THEN << <<mn, McpTerm(namespace, "section"), Literal(PyStr(prov.v.section).v)>> >>
      ELSE <<>>)
  \o << <<s, PROV_wasDerivedFrom, mn>> >>

\* The mentions loop (lines 85-106) on the fold state st = [g, nodes]: nodes
\* counts the blank nodes made so far, the n-th BNode() being _:m<n>.
RECURSIVE AddMentions(_, _, _, _, _, _)
AddMentions(st, s, mentions, prov, namespace, chunk_id) ==
  IF mentions = <<>> THEN st
  ELSE LET quote == FirstOf(Head(mentions), "quote", "quote")
           mn == BNode(<<"m", Ascii[Code("0") + st.nodes + 1]>>)
       IN AddMentions(
            IF quote = <<>> THEN st
            ELSE [g |-> GAddAll(st.g, MentionTriples(s, mn, quote, prov, namespace,
                                                     chunk_id)),
                  nodes |-> st.nodes + 1],
            s, Tail(mentions), prov, namespace, chunk_id)

\* InstanceLabel without the trimming.
InstanceLabelUntrimmed(inst) ==
  Or(Get(inst, "label", PNone), Or(Get(inst, "id_hint", PNone), EmptyStr)).v

\* label of an instance (line 48)
InstanceLabel(inst) == FirstOf(inst, "label", "id_hint")

\* One iteration of the loop over the instances of a chunk (lines 43-106).
AddInstance(st, inst, prov, namespace, chunk_id) ==
  LET cls_name == Strip(Get(inst, "class", EmptyStr).v)
      label == InstanceLabel(inst)
      s == Uri(StableInstanceIri(namespace, cls_name, label, chunk_id))
      attrs == Or(Get(inst, "attributes", PDict(<<>>)), PDict(<<>>))
  IN IF cls_name = <<>> THEN st
     ELSE AddMentions(
            [st EXCEPT !.g = GAddAll(@,
               << <<s, RDF_type, Uri(namespace \o cls_name)>> >>
               \o (IF label # <<>> THEN << <<s, RDFS_label, Literal(label)>> >> ELSE <<>>)
               \o AttributeTriples(s, attrs, SetToSeq(DOMAIN attrs.v), namespace)
               \o RelationTriples(s, Or(Get(inst, "relations", EmptyList), EmptyList).v,
                                  namespace, chunk_id))],
            s, Or(Get(inst, "mentions", EmptyList), EmptyList).v, prov, namespace,
            chunk_id)

RECURSIVE AddInstances(_, _, _, _, _)
AddInstances(st, insts, prov, namespace, chunk_id) ==
  IF insts = <<>> THEN st
  ELSE AddInstances(AddInstance(st, Head(insts), prov, namespace, chunk_id),
                    Tail(insts), prov, namespace, chunk_id)

\* The loop over the chunk proposals (lines 38-106); chunk_dtos_by_id is a
\* map from chunk ids to chunk DTOs.
RECURSIVE AddInstanceChunks(_, _, _, _)
AddInstanceChunks(st, chunk_dtos_by_id, proposals, namespace) ==
  IF proposals = <<>> THEN st
  ELSE LET cp == Head(proposals)
           chunk_id == Get(cp, "chunk_id", EmptyStr).v
           chunk == IF MHas(chunk_dtos_by_id, chunk_id)
                    THEN MGet(chunk_dtos_by_id, chunk_id) ELSE PDict(<<>>)
           prov == Or(Get(chunk, "provenance", PNone), PDict(<<>>))
       IN AddInstanceChunks(
            AddInstances(st, Get(cp, "instances", EmptyList).v, prov, namespace,
                         chunk_id),
            chunk_dtos_by_id, Tail(proposals), namespace)

\* instance_proposals_to_graph(chunk_dtos_by_id, proposals, namespace)
instance_proposals_to_graph(chunk_dtos_by_id, proposals, namespace) ==
  AddInstanceChunks([g |-> <<>>, nodes |-> 0], chunk_dtos_by_id, proposals,
                    namespace).g

(***************************************************************************)
(* proposal_to_ttl.py                                                      *)
(***************************************************************************)
\* range_map (lines 30-39)
range_map ==
  << <<<<"s","t","r","i","n","g">>, Uri(XsdIri(<<"s","t","r","i","n","g">>))>>,
     <<<<"n","u","m","b","e","r">>, Uri(XsdIri(<<"d","e","c","i","m","a","l">>))>>,
     <<<<"i","n","t","e","g","e","r">>, Uri(XsdIri(<<"i","n","t","e","g","e","r">>))>>,
     <<<<"b","o","o","l","e","a","n">>, Uri(XsdIri(<<"b","o","o","l","e","a","n">>))>>,
     <<<<"d","a","t","e">>, Uri(XsdIri(<<"d","a","t","e">>))>>,
     <<<<"d","a","t","e","t","i","m","e">>, Uri(XsdIri(<<"d","a","t","e","T","i","m","e">>))>>,
     <<<<"e","n","u","m">>, Uri(XsdIri(<<"s","t","r","i","n","g">>))>>,
     <<<<"a","n","y">>, Uri(XsdIri(<<"s","t","r","i","n","g">>))>> >>

\* RangeFor with the lookup on the range as written.
RangeForCaseSensitive(p) ==
  LET r == Get(p, "range", PStr(<<"s","t","r","i","n","g">>))
  IN IF r.k # "str" THEN Raise("AttributeError")
     ELSE IF MHas(range_map, r.v) THEN MGet(range_map, r.v)
     ELSE Uri(XsdIri(<<"s","t","r","i","n","g">>))

\* range_map.get(p.get("range","string").lower(), XSD.string) (line 44), or
\* the exception
RangeFor(p) ==
  LET r == Get(p, "range", PStr(<<"s","t","r","i","n","g">>))
  IN IF r.k # "str" THEN Raise("AttributeError")
     ELSE IF MHas(range_map, Lower(r.v)) THEN MGet(range_map, Lower(r.v))
     ELSE Uri(XsdIri(<<"s","t","r","i","n","g">>))

\* URIRef(str(BIZ) + x[field]), or the exception
BizTerm(biz_ns, x, field) ==
  IF x.k # "dict" THEN Raise("TypeError")
  ELSE IF field \notin DOMAIN x.v THEN Raise("KeyError")
  ELSE IF x.v[field].k # "str" THEN Raise("TypeError")
  ELSE Uri(biz_ns \o x.v[field].v)

\* The comment of an entry with a description (lines 26-27, 49-50, 61-62).
CommentTriples(s, x) ==
  IF Truthy(Get(x, "description", PNone))
  THEN << <<s, RDFS_comment, Literal(x.v.description.v)>> >>
  ELSE <<>>

\* One iteration of the loop over the classes (lines 23-27) on the state
\* st = [g, err].
TtlClass(st, c, biz_ns) ==
  IF st.err # "" THEN st
  ELSE LET cls == BizTerm(biz_ns, c, "name") IN
  IF IsRaise(cls) THEN [st EXCEPT !.err = cls.v]
  ELSE [st EXCEPT !.g = GAddAll(@, << <<cls, RDF_type, OWL_Class>> >>
                                   \o CommentTriples(cls, c))]

\* One iteration of the loop over the datatype properties (lines 41-50).
TtlDatatypeProperty(st, p, biz_ns) ==
  IF st.err # "" THEN st
  ELSE LET prop == BizTerm(biz_ns, p, "name")
           dom == BizTerm(biz_ns, p, "domain")
           rng == RangeFor(p)
       IN
  IF IsRaise(prop) THEN [st EXCEPT !.err = prop.v]
  ELSE IF IsRaise(dom) THEN [st EXCEPT !.err = dom.v]
  ELSE IF IsRaise(rng) THEN [st EXCEPT !.err = rng.v]
  ELSE [st EXCEPT !.g = GAddAll(@, << <<prop, RDF_type, OWL_DatatypeProperty>>,
                                      <<prop, RDFS_domain, dom>>,
                                      <<prop, RDFS_range, rng>> >>
                                   \o CommentTriples(prop, p))]

\* One iteration of the loop over the object properties (lines 53-62).
TtlObjectProperty(st, p, biz_ns) ==
  IF st.err # "" THEN st
  ELSE LET prop == BizTerm(biz_ns, p, "name")
           dom == BizTerm(biz_ns, p, "domain")
           rng == BizTerm(biz_ns, p, "range")
       IN
  IF IsRaise(prop) THEN [st EXCEPT !.err = prop.v]
  ELSE IF IsRaise(dom) THEN [st EXCEPT !.err = dom.v]
  ELSE IF IsRaise(rng) THEN [st EXCEPT !.err = rng.v]
  ELSE [st EXCEPT !.g = GAddAll(@, << <<prop, RDF_type, OWL_ObjectProperty>>,
                                      <<prop, RDFS_domain, dom>>,
                                      <<prop, RDFS_range, rng>> >>
                                   \o CommentTriples(prop, p))]

\* The three loops of proposal_to_ttl: kind tells which one.
RECURSIVE TtlLoop(_, _, _, _)
TtlLoop(st, items, biz_ns, kind) ==
  IF items = <<>> THEN st
  ELSE TtlLoop(CASE kind = "class" -> TtlClass(st, Head(items), biz_ns)
                 [] kind = "dprop" -> TtlDatatypeProperty(st, Head(items), biz_ns)
                 [] kind = "oprop" -> TtlObjectProperty(st, Head(items), biz_ns),
               Tail(items), biz_ns, kind)

\* proposal_to_ttl(agg, biz_ns): the graph, or the exception.
proposal_to_ttl(agg, biz_ns) ==
  LET st == TtlLoop(
              TtlLoop(
                TtlLoop([g |-> <<>>, err |-> ""],
                        Get(agg, "classes", EmptyList).v, biz_ns, "class"),
                Get(agg, "datatype_properties", EmptyList).v, biz_ns, "dprop"),
              Get(agg, "object_properties", EmptyList).v, biz_ns, "oprop")
  IN IF st.err # "" THEN Raise(st.err) ELSE PList(st.g)

(***************************************************************************)
(* schema_card_from_ttl.py                                                 *)
(***************************************************************************)
RDF_Property == Uri(<<"rdf:Property">>)

\* XSD_NS
XSD_NS == XsdIri(<<>>)

\* s.startswith(prefix)
StartsWith(s, prefix) ==
  Len(s) >= Len(prefix) /\ SubSeq(s, 1, Len(prefix)) = prefix

\* s.replace(old, ""): every occurrence of old is taken out, from the left.
RECURSIVE Replace(_, _)
Replace(s, old) ==
  IF old = <<>> \/ Len(s) < Len(old) THEN s
  ELSE IF StartsWith(s, old) THEN Replace(SubSeq(s, Len(old) + 1, Len(s)), old)
  ELSE <<Head(s)>> \o Replace(Tail(s), old)

\* next(g.objects(subj, pred), None), as the str of the node
FirstObject(g, subj, pred) ==
  LET hits == SelectSeq(g, LAMBDA t : t[1] = subj /\ t[2] = pred)
  IN IF hits = <<>> THEN PNone ELSE PStr(hits[1][3].v)

\* str(x).replace(namespace, "") if x and str(x).startswith(namespace)
\* else (str(x) if x else "") (lines 47-48)
Localized(x, namespace) ==
  IF Truthy(x) /\ StartsWith(x.v, namespace) THEN PStr(Replace(x.v, namespace))
  ELSE IF Truthy(x) THEN x ELSE EmptyStr

\* rng is not None and str(rng).startswith(XSD_NS)
HasXsdRange(rng) == rng.k # "none" /\ StartsWith(rng.v, XSD_NS)

\* is_datatype and is_object (lines 41-42)
IsDatatype(g, p, rng) ==
  HasXsdRange(rng) \/ \E i \in DOMAIN g : g[i] = <<p, RDF_type, OWL_DatatypeProperty>>

IsObject(g, p) == \E i \in DOMAIN g : g[i] = <<p, RDF_type, OWL_ObjectProperty>>

\* The list a property goes to (lines 53-62): "object" or "datatype".
ListOfProperty(is_datatype, is_object, rng) ==
  IF is_object /\ ~is_datatype THEN "object"
  ELSE IF is_datatype /\ ~is_object THEN "datatype"
  ELSE IF HasXsdRange(rng) THEN "datatype"
  ELSE "object"

\* item (lines 44-51)
OntologyItem(p, dom, rng, label, namespace) ==
  PDict([name |-> PStr(Replace(p.v, namespace)),
         iri |-> PStr(p.v),
         domain |-> Localized(dom, namespace),
         range |-> Localized(rng, namespace),
         label |-> IF Truthy(label) THEN label ELSE EmptyStr,
         description |-> EmptyStr])

\* One iteration of the loop over the properties (lines 31-62), as
\* <<list, item>>.
OntologyProperty(g, p, rng, namespace) ==
  <<ListOfProperty(IsDatatype(g, p, rng), IsObject(g, p), rng),
    OntologyItem(p, FirstObject(g, p, RDFS_domain), rng,
                 FirstObject(g, p, RDFS_label), namespace)>>

\* The subjects the loop runs over, in the namespace (lines 31-34).  The
\* loop takes them in the order of a set; the lists are sorted afterwards.
OntologySubjects(g, namespace) ==
  SelectSeq(DedupSeq(Subjects(g, RDF_type, OWL_DatatypeProperty)
                     \o Subjects(g, RDF_type, OWL_ObjectProperty)
                     \o Subjects(g, RDF_type, RDF_Property)),
            LAMBDA p : StartsWith(p.v, namespace))

OntologyProperties(g, subjects, namespace) ==
  [i \in DOMAIN subjects |->
     OntologyProperty(g, subjects[i], FirstObject(g, subjects[i], RDFS_range), namespace)]

\* sorted(items, key=lambda x: x["name"].lower()) of the items of a list
\* (lines 67-68)
SortedOntologyList(props, list) ==
  PList(Items(SortPairs(
    [i \in DOMAIN SelectSeq(props, LAMBDA pr : pr[1] = list) |->
       <<(<<Lower(SelectSeq(props, LAMBDA pr : pr[1] = list)[i][2].v.name.v)>>),
         SelectSeq(props, LAMBDA pr : pr[1] = list)[i][2]>>])))

\* The dict returned (lines 64-72).  The classes loop (lines 17-25) appends
\* nothing: every node of rdflib (URIRef, BNode, Literal) is a str, so
\* "not isinstance(c, (str,))" holds of none.
OntologyCard(props, ttl_path, namespace) ==
  PDict([namespace |-> PStr(namespace),
         classes |-> EmptyList,
         datatype_properties |-> SortedOntologyList(props, "datatype"),
         object_properties |-> SortedOntologyList(props, "object"),
         aliases |-> EmptyList,
         warnings |-> EmptyList,
         source |-> PDict([baseline_ontology_ttl |-> PStr(ttl_path)])])

OntologyCardOf(g, ttl_path, namespace) ==
  OntologyCard(OntologyProperties(g, OntologySubjects(g, namespace), namespace),
               ttl_path, namespace)

\* schema_card_from_ontology_ttl(ttl_path, namespace) on the file content.
schema_card_from_ontology_ttl(content, ttl_path, namespace) ==
  IF IsRaise(ParseTurtle(content)) THEN Raise("ParserError")
  ELSE OntologyCardOf(ParseTurtle(content).v, ttl_path, namespace)

(***************************************************************************)
(* ontology_extractor_openrouter.py, instance_extractor_openrouter.py      *)
(*                                                                         *)
(* The two extractors run the same loops; extract_schema_chunk_proposals   *)
(* has the limit 3 written in (range(3), attempt == 2).  The locals of a   *)
(* call are a record l: the index i of the chunk, the attempt, the list    *)
(* out, the exception err in flight, and the position pc: "chunk" at the   *)
(* head of the loop over the chunks, "attempt" at the head of the loop     *)
(* over the attempts, "pause" after it, "done" and "raised" at the end.    *)
(***************************************************************************)
\* What _chat_json and the lines of the try block after it make of a reply
\* of the LLM: "" when they pass, the exception otherwise. A reply is a JSON
\* object ("dict"), JSON of another type ("list": data.get raises), or no
\* JSON at all or an HTTP error ("error": _chat_json raises).
TryOutcome(reply) ==
  CASE reply = "dict" -> ""
    [] reply = "list" -> "AttributeError"
    [] OTHER -> "HTTPError"

\* The call of a function on chunks (lines 88-93, 123-132).
ExtractStart(fn, chunks, max_retries) ==
  [fn |-> fn, chunks |-> chunks, max_retries |-> max_retries,
   i |-> 1, attempt |-> 0, out |-> <<>>, err |-> "", pc |-> "chunk"]

\* for i, ch in enumerate(chunks): the next chunk, or the return of out
\* (lines 95-98 and 119-120, 134-137 and 157-158).
ForChunk(l) ==
  IF l.i > Len(l.chunks) THEN [l EXCEPT !.pc = "done"]
  ELSE [l EXCEPT !.pc = "attempt", !.attempt = 0]

\* for attempt in range(max_retries) is exhausted (lines 100, 139): the loop
\* ends without a break.
AttemptsExhausted(l) == l.attempt >= l.max_retries

\* One attempt on the chunk (lines 101-113, 140-150): the reply data is
\* appended and the loop left, or the exception is raised again after the
\* last attempt, or the next attempt follows the sleep.
TryAttempt(l, data, reply) ==
  IF TryOutcome(reply) = "" THEN [l EXCEPT !.out = Append(@, data), !.pc = "pause"]
  ELSE IF l.attempt = l.max_retries - 1
  THEN [l EXCEPT !.err = TryOutcome(reply), !.pc = "raised"]
  ELSE [l EXCEPT !.attempt = @ + 1]

\* After the attempts (lines 115-117, 152-155): on to the next chunk.
RateLimitPause(l) == [l EXCEPT !.i = @ + 1, !.pc = "chunk"]

(***************************************************************************)
(* Objects.  The dicts and lists of a run live on a heap: a sequence of    *)
(* objects, the address of an object being its index.  A dict holds a      *)
(* value per field and a list a sequence of values; a value is a str, an   *)
(* int or None as above, or a reference to an object.  The functions are   *)
(* modelled again on the heap, statement by statement where they write to  *)
(* an object or pass one on, so that a write to an object of the caller    *)
(* changes the caller's object.                                            *)
(***************************************************************************)
Ref(a) == [k |-> "ref", v |-> <<a>>]

IsRef(x) == x.k = "ref"

\* A new object on the heap: the heap and the reference to the object.
HNew(h, obj) == [h |-> Append(h, obj), val |-> Ref(Len(h) + 1)]

\* The object a reference points to.
Obj(h, x) == h[x.v[1]]

\* json.load: the value x with its dicts and lists as objects on the heap,
\* the items of a list one after the other (a heap never shrinks).
RECURSIVE Alloc(_, _), AllocAll(_, _)
NewList(r) == HNew(r.h, PList(r.vals))

NewDict(r, keys, x) ==
  HNew(r.h, PDict([f \in DOMAIN x.v |->
                     r.vals[CHOOSE i \in DOMAIN keys : keys[i] = f]]))

AllocFields(h, x, keys) ==
  NewDict(AllocAll(h, [i \in DOMAIN keys |-> x.v[keys[i]]]), keys, x)

Alloc(h, x) ==
  CASE x.k = "list" -> NewList(AllocAll(h, x.v))
    [] x.k = "dict" -> AllocFields(h, x, SetToSeq(DOMAIN x.v))
    [] OTHER -> [h |-> h, val |-> x]

AllocCons(first, rest) == [h |-> rest.h, vals |-> <<first.val>> \o rest.vals]

AllocTail(h, first, items) ==
  IF Len(first.h) < Len(h) THEN [h |-> h, vals |-> <<>>]
  ELSE AllocCons(first, AllocAll(first.h, Tail(items)))

AllocAll(h, items) ==
  IF items = <<>> THEN [h |-> h, vals |-> <<>>]
  ELSE AllocTail(h, Alloc(h, Head(items)), items)

\* json.dump: the document a value of the heap stands for.
RECURSIVE Load(_, _)
LoadObj(h, o) ==
  IF o.k = "list" THEN PList([i \in DOMAIN o.v |-> Load(h, o.v[i])])
  ELSE PDict([f \in DOMAIN o.v |-> Load(h, o.v[f])])

Load(h, x) == IF ~IsRef(x) THEN x ELSE LoadObj(h, Obj(h, x))

\* d.get(key, default) on a dict of the heap
HGet(h, d, key, default) ==
  IF key \in DOMAIN Obj(h, d).v THEN Obj(h, d).v[key] ELSE default

\* d[key] = val: the heap after the assignment
HSetItem(h, d, key, val) ==
  [h EXCEPT ![d.v[1]] = PDict([f \in DOMAIN @.v \cup {key} |->
                                 IF f = key THEN val ELSE @.v[f]])]

\* d[key] = new, new being an object that was just made
SetNew(new, d, key) == HSetItem(new.h, d, key, new.val)

\* l.append(val), l.extend(vals): the heap after the call
HExtend(h, l, vals) == [h EXCEPT ![l.v[1]] = PList(@.v \o vals)]

\* The items of a list of the heap.
HItems(h, l) == Obj(h, l).v

\* _as_list(x) (proposal_aggregator.py lines 12-17): x itself when it is a
\* list, a new list otherwise.
HAsList(h, x) ==
  IF x.k = "none" THEN HNew(h, PList(<<>>))
  ELSE IF IsRef(x) /\ Obj(h, x).k = "list" THEN [h |-> h, val |-> x]
  ELSE HNew(h, PList(<<x>>))

\* x or d, on values of the heap
HOr(h, x, d) == IF Truthy(Load(h, x)) THEN x ELSE d

\* isinstance(x, dict)
IsDictRef(h, x) == IsRef(x) /\ Obj(h, x).k = "dict"

\* _normalize_evidence(ev, default_chunk_id) (lines 19-56): a new list of new
\* dicts, out being written to by out.append only.
HNormalizeEvidence(h, ev, default_chunk_id) ==
  Alloc(h, PList(NormalizeEvidence(Load(h, ev), default_chunk_id)))

\* merge_evidence(existing_ev, new_ev, default_chunk_id) (lines 69-79): both
\* lists are normalised into new lists, and the new items are appended to the
\* first of the two new lists.
HMergeEvidence(h, existing_ev, new_ev, default_chunk_id) ==
  Alloc(h, MergeEvidence(Load(h, existing_ev), Load(h, new_ev), default_chunk_id))

\* The fields of the dict literal of a new entry (lines 99-103, 126-132,
\* 154-160, 182-188) but its lists.
NewEntryFields(h, kind, item) ==
  LET described == [name |-> HGet(h, item, "name", PNone),
                    description |-> HOr(h, HGet(h, item, "description", EmptyStr),
                                        EmptyStr)]
  IN IF kind \in {"dprop", "oprop"}
     THEN described @@ [domain |-> HGet(h, item, "domain", PNone),
                        range |-> HGet(h, item, "range", PNone)]
     ELSE described

\* The key of an item that is kept (lines 94-97, 121-124, 149-152, 177-180):
\* None for an item that is skipped, or the exception.
HAggKeyOf(kind, item) ==
  IF kind \in {"dprop", "oprop"}
  THEN IF \/ ~Truthy(Get(item, "domain", PNone))
          \/ ~Truthy(Get(item, "name", PNone))
          \/ ~Truthy(Get(item, "range", PNone))
       THEN PNone
       ELSE AggPropKey(Get(item, "domain", PNone), Get(item, "name", PNone),
                       Get(item, "range", PNone))
  ELSE IF ~Truthy(Get(item, "name", PNone)) THEN PNone
       ELSE AggKey(Get(item, "name", PNone))

\* map[k] = entry
HPutNew(st, kind, key, entry) ==
  [st EXCEPT !.h = entry.h, !.maps[kind] = MSet(@, key, entry.val)]

\* The dict literal of an event (lines 182-188), its evidence normalised:
\* "actors" and "effects" are what _as_list returns.
NewEventEntry(fields, actors, effects) ==
  HNew(effects.h, PDict(fields @@ [actors |-> actors.val, effects |-> effects.val]))

NewEventEffects(fields, item, actors) ==
  NewEventEntry(fields, actors, HAsList(actors.h, HGet(actors.h, item, "effects", PNone)))

NewEventActors(h, fields, item) ==
  NewEventEffects(fields, item, HAsList(h, HGet(h, item, "actors", PNone)))

NewEntryWith(kind, item, ev, fields) ==
  IF kind = "event" THEN NewEventActors(ev.h, fields, item) ELSE HNew(ev.h, PDict(fields))

NewEntry(h, kind, item, ev) ==
  NewEntryWith(kind, item, ev, NewEntryFields(h, kind, item) @@ [evidence |-> ev.val])

\* map[k] = {...} for an item seen for the first time: the new entry holds
\* the actors and effects lists of the event as _as_list returns them.
HAggFirstSighting(st, kind, key, item, cp_chunk_id) ==
  HPutNew(st, kind, key,
          NewEntry(st.h, kind, item,
                   HNormalizeEvidence(st.h, HGet(st.h, item, "evidence", EmptyList),
                                      cp_chunk_id)))

\* events[k][field] = sorted(set(events[k].get(field, []))
\*                           | set(_as_list(ev.get(field, [])))) (lines 190-191)
HMergeActors(h, cur, item, field) ==
  SetNew(Alloc(h, SortedUnion(Load(h, HGet(h, cur, field, EmptyList)).v,
                              AsList(Load(h, HGet(h, item, field, EmptyList))))),
         cur, field)

\* if new_desc and (not old_desc or len(new_desc) > len(old_desc)):
\*     map[k]["description"] = new_desc
HSetLongerDesc(h, cur, old_desc, new_desc) ==
  IF /\ Truthy(Load(h, new_desc))
     /\ \/ ~Truthy(Load(h, old_desc))
        \/ PyLen(Load(h, new_desc)) > PyLen(Load(h, old_desc))
  THEN HSetItem(h, cur, "description", new_desc)
  ELSE h

HMergeDescription(h, cur, item) ==
  HSetLongerDesc(h, cur,
                 HOr(h, HGet(h, cur, "description", EmptyStr), EmptyStr),
                 HOr(h, HGet(h, item, "description", EmptyStr), EmptyStr))

\* map[k]["evidence"] = merge_evidence(map[k].get("evidence", []),
\*                                     x.get("evidence", []), cp_chunk_id)
HSetMergedEvidence(h, cur, item, cp_chunk_id) ==
  SetNew(HMergeEvidence(h, HGet(h, cur, "evidence", EmptyList),
                        HGet(h, item, "evidence", EmptyList), cp_chunk_id),
         cur, "evidence")

\* The statements on an entry seen before (lines 105-115, 134-143, 162-171,
\* 190-201).
HAggLaterSighting(st, kind, cur, item, cp_chunk_id) ==
  [st EXCEPT !.h =
     HSetMergedEvidence(
       HMergeDescription(
         IF kind = "event"
         THEN HMergeActors(HMergeActors(@, cur, item, "actors"), cur, item, "effects")
         ELSE @,
         cur, item),
       cur, item, cp_chunk_id)]

HAggKeyed(st, kind, key, item, cp_chunk_id) ==
  IF key = PNone THEN st
  ELSE IF ~MHas(st.maps[kind], key.v)
  THEN HAggFirstSighting(st, kind, key.v, item, cp_chunk_id)
  ELSE HAggLaterSighting(st, kind, MGet(st.maps[kind], key.v), item, cp_chunk_id)

\* One iteration of a loop over the items of a kind (lines 90-115, 118-143,
\* 146-171, 174-201).
HAggItem(st, kind, item, cp_chunk_id) ==
  IF ~IsDictRef(st.h, item) THEN st
  ELSE HAggKeyed(st, kind, HAggKeyOf(kind, Load(st.h, item)), item, cp_chunk_id)

RECURSIVE HAggItems(_, _, _, _)
HAggItems(st, kind, items, cp_chunk_id) ==
  IF items = <<>> THEN st
  ELSE HAggItems(HAggItem(st, kind, Head(items), cp_chunk_id), kind, Tail(items),
                 cp_chunk_id)

HAggListed(st, kind, items, cp_chunk_id) ==
  HAggItems([st EXCEPT !.h = items.h], kind, HItems(items.h, items.val), cp_chunk_id)

\* for x in _as_list(add.get(field, [])): ...
HAggLoop(st, kind, add, field, cp_chunk_id) ==
  HAggListed(st, kind, HAsList(st.h, HGet(st.h, add, field, PNone)), cp_chunk_id)

HExtendWith(l, items) == HExtend(items.h, l, HItems(items.h, items.val))

\* l.extend(_as_list(cp.get(field, []))) (lines 84-85)
HExtendFrom(h, l, cp, field) == HExtendWith(l, HAsList(h, HGet(h, cp, field, PNone)))

\* The four loops over the additions of a chunk proposal (lines 90-201).
HAggAdditions(st, add, cp_chunk_id) ==
  IF ~IsDictRef(st.h, add) THEN st
  ELSE HAggLoop(
         HAggLoop(
           HAggLoop(
             HAggLoop(st, "class", add, "classes", cp_chunk_id),
             "dprop", add, "datatype_properties", cp_chunk_id),
           "oprop", add, "object_properties", cp_chunk_id),
         "event", add, "events", cp_chunk_id)

HAggExtended(st, cp, cp_chunk_id) ==
  HAggAdditions(st, HGet(st.h, cp, "proposed_additions", PNone), cp_chunk_id)

\* One iteration of the loop over the chunk proposals (lines 81-201).
HAggChunk(st, cp) ==
  HAggExtended([st EXCEPT !.h = HExtendFrom(HExtendFrom(@, st.warnings, cp, "warnings"),
                                            st.merges, cp, "alias_or_merge_suggestions")],
               cp,
               PyStr(Or(Load(st.h, HGet(st.h, cp, "chunk_id", PNone)), EmptyStr)))

RECURSIVE HAggChunks(_, _)
HAggChunks(st, cps) ==
  IF cps = <<>> THEN st ELSE HAggChunks(HAggChunk(st, Head(cps)), Tail(cps))

\* Objects made one after the other: the heap and the references to them.
HNewAll(h, objs) == [h |-> h \o objs, vals |-> [i \in DOMAIN objs |-> Ref(Len(h) + i)]]

\* The locals of aggregate_chunk_proposals (lines 61-67): the four maps are
\* kept as sequences of <<key, entry>>, the two lists are on the heap.
HAggLocals(lists) ==
  [h |-> lists.h, warnings |-> lists.vals[1], merges |-> lists.vals[2],
   maps |-> [class |-> <<>>, dprop |-> <<>>, oprop |-> <<>>, event |-> <<>>]]

HAggStart(h) == HAggLocals(HNewAll(h, <<PList(<<>>), PList(<<>>)>>))

\* The dict returned (lines 222-229): list(map.values()) is a new list of the
\* entries of the map, "merge_suggestions" is the list merges itself.
HAggDocument(st, warnings_out, lists) ==
  HNew(lists.h, PDict([classes |-> lists.vals[1],
                       datatype_properties |-> lists.vals[2],
                       object_properties |-> lists.vals[3],
                       events |-> lists.vals[4],
                       merge_suggestions |-> st.merges,
                       warnings |-> warnings_out.val]))

HAggValues(st, warnings_out) ==
  HAggDocument(st, warnings_out,
               HNewAll(warnings_out.h, <<PList(MValues(st.maps["class"])),
                                         PList(MValues(st.maps["dprop"])),
                                         PList(MValues(st.maps["oprop"])),
                                         PList(MValues(st.maps["event"]))>>))

\* The document returned (lines 203-229).
HAggReturn(st) ==
  HAggValues(st, Alloc(st.h, PList(AggWarningsOut(<<>>, Load(st.h, st.warnings).v))))

\* aggregate_chunk_proposals(chunk_props) on the heap h, chunk_props being
\* the references to the chunk proposals: the heap after the call and the
\* reference to the document returned.
HAggregate(h, cps) == HAggReturn(HAggChunks(HAggStart(h), cps))

\* The values setdefault gives the fields a card lacks (lines 33-40), fresh
\* being six new lists.
SchemaDefaults(fresh, now) ==
  [version |-> NowIso(now),
   namespace |-> DefaultNamespace,
   classes |-> fresh.vals[1],
   datatype_properties |-> fresh.vals[2],
   object_properties |-> fresh.vals[3],
   events |-> fresh.vals[4],
   aliases |-> fresh.vals[5],
   warnings |-> fresh.vals[6]]

WithDefaults(given, defaults) ==
  PDict([f \in DOMAIN given \cup DOMAIN defaults |->
           IF f \in DOMAIN given THEN given[f] ELSE defaults[f]])

HCopyWithDefaults(fresh, given, now) ==
  HNew(fresh.h, WithDefaults(given, SchemaDefaults(fresh, now)))

HSetDefaults(fresh, schema, given, now) ==
  [h |-> [fresh.h EXCEPT ![schema.v[1]] = WithDefaults(given, SchemaDefaults(fresh, now))],
   val |-> schema]

\* HEnsureSchemaCardDefaults without the copy: the defaults are set on the
\* dict that was passed.
HEnsureSchemaCardDefaultsInPlace(h, schema, now) ==
  HSetDefaults(AllocAll(h, [i \in 1..6 |-> EmptyList]), schema, Obj(h, schema).v, now)

\* _ensure_schema_card_defaults(schema) (schema_card.py lines 31-41) for a
\* dict schema: dict(schema) is a new dict with the values of schema, and
\* setdefault gives it a new list per field it lacks.
HEnsureSchemaCardDefaults(h, schema, now) ==
  HCopyWithDefaults(AllocAll(h, [i \in 1..6 |-> EmptyList]), Obj(h, schema).v, now)

\* One iteration of a loop of schema_card_from_proposal over the entries of
\* a kind, as the model of the loop above computes it on the documents.
MergeStep(kind, from_prev, map, item) ==
  CASE kind = "class" /\ from_prev -> MergePrevClass(map, item)
    [] kind = "class" /\ ~from_prev -> MergeProposalClass(map, item)
    [] kind = "dprop" /\ from_prev -> MergePrevDatatypeProperty(map, item)
    [] kind = "dprop" /\ ~from_prev -> MergeProposalDatatypeProperty(map, item)
    [] kind = "oprop" /\ from_prev -> MergePrevObjectProperty(map, item)
    [] kind = "oprop" /\ ~from_prev -> MergeProposalObjectProperty(map, item)
    [] kind = "event" /\ from_prev -> MergePrevEvent(map, item)
    [] kind = "event" /\ ~from_prev -> MergeProposalEvent(map, item)

\* The documents of the entries of a map of the heap.
LoadMap(h, map) == [i \in DOMAIN map |-> <<map[i][1], Load(h, map[i][2])>>]

\* entry[f] = ... for the fields in which the entry changes (lines 88, 131,
\* 160, 205-208): the heap after the assignments.
RECURSIVE HAssignFields(_, _, _, _)
HAssignFields(h, entry, fields, doc) ==
  IF fields = <<>> THEN h
  ELSE HAssignFields(SetNew(Alloc(h, doc.v[Head(fields)]), entry, Head(fields)),
                     entry, Tail(fields), doc)

\* map[k] = {...}: a new dict, with new lists, in the map
HPutEntry(st, key, new) == [h |-> new.h, map |-> MSet(st.map, key, new.val)]

\* The entry i of the map after the iteration differs from the one before.
HMergeChanged(st, docs, after, i, from_prev) ==
  IF from_prev \/ i \notin DOMAIN docs
  THEN HPutEntry(st, after[i][1], Alloc(st.h, after[i][2]))
  ELSE [st EXCEPT !.h =
          HAssignFields(@, st.map[i][2],
                        SetToSeq({f \in DOMAIN after[i][2].v :
                                    after[i][2].v[f] # docs[i][2].v[f]}),
                        after[i][2])]

HMergeDiff(st, docs, after, from_prev) ==
  IF after = docs THEN st
  ELSE HMergeChanged(st, docs, after,
                     CHOOSE i \in DOMAIN after : i \notin DOMAIN docs \/ after[i] # docs[i],
                     from_prev)

HMergeLoaded(st, kind, from_prev, item, docs) ==
  HMergeDiff(st, docs, MergeStep(kind, from_prev, docs, Load(st.h, item)).v, from_prev)

\* One iteration of a loop over the entries of a kind (lines 67-88, 94-131,
\* 139-160, 169-208) on the state st = [h, map]: map[k] = {...} puts a new
\* dict, with new lists, into the map, and map[k][f] = ... assigns to the
\* dict the map holds.
HMergeItem(st, kind, from_prev, item) ==
  HMergeLoaded(st, kind, from_prev, item, LoadMap(st.h, st.map))

RECURSIVE HMergeItems(_, _, _, _)
HMergeItems(st, kind, from_prev, items) ==
  IF items = <<>> THEN st
  ELSE HMergeItems(HMergeItem(st, kind, from_prev, Head(items)), kind, from_prev,
                   Tail(items))

\* sorted(map.values(), key=...): the entries of the map in the order of
\* their documents.
HSortedRefs(st, docs, sorted) ==
  PList([i \in DOMAIN sorted |->
           st.map[CHOOSE j \in DOMAIN docs : docs[j][2] = sorted[i]][2]])

HSortedList(st, kind, docs) ==
  HNew(st.h, HSortedRefs(st, docs,
                         (IF kind \in {"dprop", "oprop"}
                          THEN SortedByDomainNameRange(docs)
                          ELSE SortedByName(docs)).v))

HMergeSorted(st, out, kind, field) ==
  SetNew(HSortedList(st, kind, LoadMap(st.h, st.map)), out, field)

\* out[field] = sorted(map.values(), key=...) (lines 91, 133-136, 162-165,
\* 210): the heap after the assignment of the new list.
HMergeKind(h, prev, proposal, out, kind, field) ==
  HMergeSorted(
    HMergeItems(
      HMergeItems([h |-> h, map |-> <<>>], kind, TRUE,
                  HItems(h, HGet(h, prev, field, PNone))),
      kind, FALSE, HItems(h, HGet(h, proposal, field, PNone))),
    out, kind, field)

\* The four maps (lines 66-210).
HMergeKinds(h, prev, proposal, out) ==
  HMergeKind(
    HMergeKind(
      HMergeKind(
        HMergeKind(h, prev, proposal, out, "class", "classes"),
        prev, proposal, out, "dprop", "datatype_properties"),
      prev, proposal, out, "oprop", "object_properties"),
    prev, proposal, out, "event", "events")

\* out["aliases"] = aliases (lines 213-230): a new list of new dicts.
HMergeAliases(h, prev, proposal, out) ==
  SetNew(Alloc(h, MergedAliases(Load(h, prev), Load(h, proposal))), out, "aliases")

\* out["warnings"] (lines 233-249): a new list of strs, built being the
\* card so far.
HSetMergedWarnings(h, prev, proposal, out, built) ==
  SetNew(Alloc(h, MergedWarnings(Load(h, prev), Load(h, proposal),
                                 built.v.classes, built.v.datatype_properties,
                                 built.v.object_properties)),
         out, "warnings")

HMergeWarnings(h, prev, proposal, out) ==
  HSetMergedWarnings(h, prev, proposal, out, Load(h, out))

\* The statements of schema_card_from_proposal after prev and out are bound
\* (lines 57-249).
HMergeOnto(h, prev, proposal, out, namespace, now) ==
  [h |-> HMergeWarnings(
           HMergeAliases(
             HMergeKinds(
               HSetItem(HSetItem(h, out, "version", NowIso(now)),
                        out, "namespace",
                        Or(namespace, Or(HGet(h, prev, "namespace", PNone),
                                         HGet(h, out, "namespace", PNone)))),
               prev, proposal, out),
             prev, proposal, out),
           prev, proposal, out),
   val |-> out]

HMergeOut(prev, proposal, namespace, now, out) ==
  HMergeOnto(out.h, prev.val, proposal, out.val, namespace, now)

HMergeEmpty(prev, proposal, namespace, now, empty) ==
  HMergeOut(prev, proposal, namespace, now,
            HEnsureSchemaCardDefaults(empty.h, empty.val, now))

HMergePrev(prev, proposal, namespace, now) ==
  HMergeEmpty(prev, proposal, namespace, now, HNew(prev.h, PDict(<<>>)))

\* schema_card_from_proposal(previous_schema_card, aggregated_proposal,
\* namespace) on the heap h: the heap after the call and the reference to
\* the card returned.  The aliases (lines 213-230) and the warnings (lines
\* 233-249) are new lists of new dicts and strs.
HSchemaCardFromProposal(h, previous_schema_card, aggregated_proposal, namespace, now) ==
  HMergePrev(HEnsureSchemaCardDefaults(h, previous_schema_card, now),
             aggregated_proposal, namespace, now)

(***************************************************************************)
(* schema_card_merge.py                                                    *)
(***************************************************************************)
\* One assignment idx[_key(it.get("name"))] = it of merge_list_by_name
\* (lines 13, 17), on the index as a sequence of <<key, entry>>.
RECURSIVE IndexByName(_, _, _)
IndexByName(h, idx, items) ==
  IF items = <<>> THEN idx
  ELSE IndexByName(h,
                   IF IsDictRef(h, Head(items))
                   THEN MSet(idx, AggKey(Load(h, HGet(h, Head(items), "name", PNone))).v,
                             Head(items))
                   ELSE idx,
                   Tail(items))

\* x.get(field, []) or [], as the items of the list
ItemsOrNone(h, x, field) ==
  IF Truthy(Load(h, HGet(h, x, field, PNone))) THEN HItems(h, HGet(h, x, field, PNone))
  ELSE <<>>

\* out[field] = merge_list_by_name(base.get(field, []), overlay.get(field, []))
\* (lines 12-22): a new list of the entries of base and overlay.
HMergeListByName(h, out, base, overlay, field) ==
  SetNew(HNew(h, PList(MValues(
           IndexByName(h, IndexByName(h, <<>>, ItemsOrNone(h, base, field)),
                       ItemsOrNone(h, overlay, field))))),
         out, field)

\* out[field] = (base.get(field, []) or []) + (overlay.get(field, []) or [])
\* (lines 25-26)
HConcat(h, out, base, overlay, field) ==
  SetNew(HNew(h, PList(ItemsOrNone(h, base, field) \o ItemsOrNone(h, overlay, field))),
         out, field)

\* The statements of merge_schema_cards after out is bound (lines 10, 20-27).
MergeSchemaCardsInto(h, out, base, overlay) ==
  LET h1 == HSetItem(h, out, "namespace",
                     HOr(h, HGet(h, overlay, "namespace", PNone),
                         HGet(h, base, "namespace", PNone)))
      h2 == HMergeListByName(
              HMergeListByName(
                HMergeListByName(h1, out, base, overlay, "classes"),
                out, base, overlay, "datatype_properties"),
              out, base, overlay, "object_properties")
  IN [h |-> HConcat(HConcat(h2, out, base, overlay, "aliases"),
                    out, base, overlay, "warnings"),
      val |-> out]

\* HMergeSchemaCards with out = base instead of out = dict(base).
HMergeSchemaCardsInPlace(h, base, overlay) ==
  MergeSchemaCardsInto(h, base, base, overlay)

\* merge_schema_cards(base, overlay) on the heap h: the heap after the call
\* and the reference to the card returned.
HMergeSchemaCards(h, base, overlay) ==
  LET out == HNew(h, Obj(h, base))
  IN MergeSchemaCardsInto(out.h, out.val, base, overlay)

(***************************************************************************)
(* The inputs.                                                             *)
(***************************************************************************)
\* The subsequence of pool at the indices in idx, in pool order.
SubPool(pool, idx) ==
  LET F[i \in 0..Len(pool)] ==
        IF i = 0 THEN <<>>
        ELSE IF i \in idx THEN Append(F[i - 1], pool[i]) ELSE F[i - 1]
  IN F[Len(pool)]

Reverse(seq) == [i \in DOMAIN seq |-> seq[Len(seq) + 1 - i]]

\* Every selection of items of a pool in pool order, and the whole pool reversed.
Selections(pool) ==
  {SubPool(pool, idx) : idx \in SUBSET DOMAIN pool} \cup {Reverse(pool)}

\* The items of one kind among tagged items <<kind, value>>.
OfKind(items, kind) ==
  LET hits == SelectSeq(items, LAMBDA it : it[1] = kind)
  IN PList([i \in DOMAIN hits |-> hits[i][2]])

\* An aggregated proposal document holding the tagged items.
ProposalOf(items) ==
  PDict([classes |-> OfKind(items, "class"),
         datatype_properties |-> OfKind(items, "dprop"),
         object_properties |-> OfKind(items, "oprop"),
         events |-> OfKind(items, "event"),
         merge_suggestions |-> OfKind(items, "alias"),
         warnings |-> OfKind(items, "warning")])

ClassOf(name, desc) == PDict([name |-> PStr(name), description |-> PStr(desc)])

PropOf(dom, name, rng, desc) ==
  PDict([domain |-> PStr(dom), name |-> PStr(name), range |-> PStr(rng),
         description |-> PStr(desc)])

\* The entry with an origin of its own.
WithOrigin(entry, origin) == SetItem(entry, "origin", PStr(origin))

Strs(seq) == PList([i \in DOMAIN seq |-> PStr(seq[i])])

\* The families of proposal items: a run merges proposals of one family.
FamilyPool(family) ==
  CASE family = "ranges" ->
         << <<"dprop", PropOf(<<"A">>, <<"x">>, <<"S","t","r","i","n","g">>, <<>>)>>,
            <<"dprop", PropOf(<<"a">>, <<"X">>, <<"s","t","r","i","n","g">>, <<"d">>)>>,
            <<"dprop", PropOf(<<"A">>, <<"x">>, <<"D","e","c","i","m","a","l">>, <<>>)>>,
            <<"dprop", PropOf(<<"A">>, <<"x">>, <<>>, <<"d","d">>)>> >>
    [] family = "dangling" ->
         << <<"class", ClassOf(<<"A">>, <<>>)>>,
            <<"oprop", PropOf(<<"A">>, <<"r">>, <<"B">>, <<>>)>>,
            <<"dprop", PDict([domain |-> PStr(<<"B">>), name |-> PStr(<<"y">>)])>>,
            <<"class", ClassOf(<<"b">>, <<"x">>)>> >>
    [] family = "events" ->
         << <<"event", PDict([name |-> PStr(<<"E">>),
                              actors |-> Strs(<< <<"b">>, <<"a">> >>),
                              effects |-> Strs(<< <<"z">> >>)])>>,
            <<"event", PDict([name |-> PStr(<<"e">>),
                              actors |-> Strs(<< <<"c">> >>),
                              description |-> PStr(<<"d">>)])>>,
            <<"class", ClassOf(<<" ","A">>, <<"x"," ">>)>>,
            <<"class", ClassOf(<<"a">>, <<"x","y">>)>> >>
    [] family = "origins" ->
         << <<"class", WithOrigin(ClassOf(<<"A">>, <<>>), <<"o","1">>)>>,
            <<"class", WithOrigin(ClassOf(<<"a">>, <<"d","d">>), <<"o","2">>)>>,
            <<"dprop", WithOrigin(PropOf(<<"a">>, <<"X">>, <<"N","u","m","b","e","r">>,
                                         <<"d">>), <<"o","2">>)>>,
            <<"event", PDict([name |-> PStr(<<"E">>), origin |-> PStr(<<"o","1">>),
                              actors |-> Strs(<< <<"a">> >>)])>>,
            <<"event", PDict([name |-> PStr(<<"e">>),
                              actors |-> Strs(<< <<"b">> >>)])>> >>
    [] family = "notes" ->
         << <<"alias", PDict([names |-> Strs(<< <<"A">>, <<"b"," ">> >>),
                              rationale |-> PStr(<<"r">>)])>>,
            <<"alias", PDict([names |-> Strs(<< <<"B">>, <<"a">> >>)])>>,
            <<"warning", PStr(<<"w">>)>>,
            <<"warning", PStr(<<" ","w">>)>> >>
    [] family = "codec" ->
         << <<"class", ClassOf(<<"A">>, <<"d">>)>>,
            <<"dprop", PropOf(<<"A">>, <<"n">>, <<"i","n","t","e","g","e","r">>, <<>>)>>,
            <<"dprop", PropOf(<<"B">>, <<"n">>, <<"e","n","u","m">>, <<>>)>>,
            <<"dprop", PropOf(<<"A">>, <<"m">>, <<"n","u","m","b","e","r">>, <<>>)>>,
            <<"oprop", PropOf(<<"A">>, <<"r">>, <<"B">>, <<>>)>>,
            <<"oprop", PropOf(<<"A">>, <<"m">>, <<"B">>, <<>>)>> >>
    [] family = "aliases" ->
         << <<"alias", PDict([names |-> Strs(<< <<" ","A">>, <<"a">>, <<" ">> >>),
                              rationale |-> PStr(<<"r","1">>)])>>,
            <<"alias", PDict([names |-> Strs(<< <<"a">> >>),
                              rationale |-> PStr(<<"r","2">>)])>>,
            <<"alias", PDict([names |-> Strs(<< <<"a">>, <<"A">> >>),
                              rationale |-> PStr(<<"r","3">>)])>>,
            <<"alias", PDict([names |-> Strs(<< <<" ">>, <<>> >>),
                              rationale |-> PStr(<<"r","4">>)])>> >>

Families == {"ranges", "dangling", "events", "notes", "origins", "aliases"}

\* The aggregated proposals a run of the given family may merge.
Proposals(family) == {ProposalOf(items) : items \in Selections(FamilyPool(family))}

\* The baseline ontologies (parsed Turtle files) of the runs.
NsA == <<"http://a.org", "/">>

NsB == <<"http://b.org", "#">>

GraphA ==
  [k |-> "graph", v |->
    << <<Uri(NsA \o <<"A">>), RDF_type, OWL_Class>>,
       <<Uri(NsA \o <<"A">>), RDFS_comment, Literal(<<"f","r","o","m"," ","a">>)>>,
       <<Uri(NsA \o <<"x">>), RDF_type, OWL_DatatypeProperty>>,
       <<Uri(NsA \o <<"x">>), RDFS_domain, Uri(NsA \o <<"A">>)>>,
       <<Uri(NsA \o <<"x">>), RDFS_range, Uri(XsdIri(<<"d","e","c","i","m","a","l">>))>>,
       <<Uri(NsA \o <<"r">>), RDF_type, OWL_ObjectProperty>>,
       <<Uri(NsA \o <<"r">>), RDFS_domain, Uri(NsA \o <<"A">>)>>,
       <<Uri(NsA \o <<"r">>), RDFS_range, Uri(NsA \o <<"B">>)>> >>]

GraphB ==
  [k |-> "graph", v |->
    << <<Uri(NsB \o <<"a">>), RDF_type, RDFS_Class>>,
       <<Uri(NsB \o <<"a">>), RDFS_comment, Literal(<<"b">>)>>,
       <<Uri(NsB \o <<"B">>), RDF_type, OWL_Class>>,
       <<Uri(NsB \o <<"_","h">>), RDF_type, OWL_Class>>,
       <<BNode(<<"n","1">>), RDF_type, OWL_Class>>,
       <<Uri(NsB \o <<"X">>), RDF_type, OWL_DatatypeProperty>>,
       <<Uri(NsB \o <<"X">>), RDFS_domain, Uri(NsB \o <<"a">>)>>,
       <<Uri(NsB \o <<"X">>), RDFS_range, Uri(XsdIri(<<"d","o","u","b","l","e">>))>>,
       <<Uri(NsB \o <<"y">>), RDF_type, OWL_DatatypeProperty>>,
       <<Uri(NsB \o <<"y">>), RDFS_range, Uri(NsB \o <<"C">>)>>,
       <<Uri(NsB \o <<"R">>), RDF_type, OWL_ObjectProperty>>,
       <<Uri(NsB \o <<"R">>), RDFS_domain, Uri(NsB \o <<"a">>)>>,
       <<Uri(NsB \o <<"R">>), RDFS_range, Uri(NsB \o <<"b">>)>>,
       <<Uri(NsB \o <<"q">>), RDF_type, OWL_ObjectProperty>> >>]

SlugA == <<"a">>

SlugB == <<"b">>

SlugUnknown == <<"z">>

\* A manifest entry as register_ontology writes it (lines 229-236).
ManifestEntry(slug, namespace) ==
  PDict([slug |-> PStr(slug), label |-> PStr(slug), namespace |-> PStr(namespace),
         description |-> EmptyStr, path |-> PStr(TtlPath(slug)), tags |-> EmptyList])

\* A catalog directory holding the registered baselines, in manifest order.
CatalogOf(registered) ==
  [catalog_json |-> PDict([ontologies |->
       PList([i \in DOMAIN registered |->
                ManifestEntry(registered[i][1], registered[i][2])])]),
   files |-> [i \in DOMAIN registered |->
                <<TtlPath(registered[i][1]), registered[i][3]>>]]

\* A catalog directory with both baselines registered.
CatalogAB == CatalogOf(<< <<SlugA, NsA, GraphA>>, <<SlugB, NsB, GraphB>> >>)

\* The catalog directories of the compositions: no manifest yet, one baseline,
\* both in either registration order.
Catalogs ==
  { [catalog_json |-> PNone, files |-> <<>>],
    CatalogOf(<< <<SlugA, NsA, GraphA>> >>),
    CatalogOf(<< <<SlugB, NsB, GraphB>> >>),
    CatalogAB,
    CatalogOf(<< <<SlugB, NsB, GraphB>>, <<SlugA, NsA, GraphA>> >>) }

\* A schema_card.json written before the run, as build-schema-card reads it:
\* its datatype property carries the range "Decimal".
StoredCard ==
  EnsureSchemaCardDefaults(
    PDict([classes |-> PList(<<ClassOf(<<"A">>, <<>>)>>),
           datatype_properties |->
             PList(<<PropOf(<<"A">>, <<"x">>, <<"D","e","c","i","m","a","l">>, <<>>)>>)]),
    0)

\* A schema_card.json edited by hand: classes, properties and events that
\* repeat a key (in another letter case, with blanks around it), entries
\* without a name, an object property without a range, a datatype property
\* without a range, and alias groups that name the same classes.
EditedCard ==
  EnsureSchemaCardDefaults(
    PDict([classes |->
             PList(<<ClassOf(<<"A">>, <<>>),
                     WithOrigin(ClassOf(<<"a"," ">>, <<"d">>), <<"o","1">>),
                     ClassOf(<<>>, <<"d">>),
                     ClassOf(<<"B">>, <<>>)>>),
           datatype_properties |->
             PList(<<PropOf(<<"A">>, <<"x">>, <<"S","t","r","i","n","g">>, <<>>),
                     PropOf(<<"a">>, <<" ","X">>, <<"s","t","r","i","n","g">>, <<"d">>),
                     PropOf(<<"A">>, <<" ">>, <<"s","t","r","i","n","g">>, <<>>),
                     PDict([domain |-> PStr(<<"B">>), name |-> PStr(<<"y">>)])>>),
           object_properties |->
             PList(<<PropOf(<<"A">>, <<"r">>, <<"B">>, <<>>),
                     PropOf(<<"a">>, <<"R">>, <<"b">>, <<"d">>),
                     PropOf(<<"A">>, <<"r">>, <<>>, <<>>)>>),
           events |->
             PList(<<PDict([name |-> PStr(<<"E">>), actors |-> Strs(<< <<"a">> >>)]),
                     PDict([name |-> PStr(<<"e">>), actors |-> Strs(<< <<"b">> >>)]),
                     PDict([name |-> PStr(<<" ">>)])>>),
           aliases |->
             PList(<<PDict([names |-> Strs(<< <<"A">>, <<"b">> >>),
                            rationale |-> PStr(<<"r">>)]),
                     PDict([names |-> Strs(<< <<"B">>, <<" ","a">> >>)]),
                     PDict([names |-> Strs(<< <<" ">> >>)])>>)]),
    0)

\* One chunk proposal as the LLM returns it for a chunk.
ChunkOf(chunk_id, items) ==
  PDict([chunk_id |-> PStr(chunk_id),
         proposed_additions |->
           PDict([classes |-> OfKind(items, "class"),
                  datatype_properties |-> OfKind(items, "dprop"),
                  object_properties |-> OfKind(items, "oprop"),
                  events |-> OfKind(items, "event")]),
         alias_or_merge_suggestions |-> OfKind(items, "alias"),
         warnings |-> OfKind(items, "warning")])

\* The entry with the evidence the LLM gave for it.
WithEvidence(entry, ev) == SetItem(entry, "evidence", ev)

\* The chunk proposals of a document: well-formed ones ("chunks"), and ones
\* with entries of the wrong shape ("llm").
ChunkPool(family) ==
  CASE family = "chunks" ->
         { ChunkOf(<<"1">>,
             << <<"class", ClassOf(<<"P">>, <<"x">>)>>,
                <<"dprop", PropOf(<<"P">>, <<"n">>, <<"s","t","r","i","n","g">>, <<>>)>>,
                <<"event", PDict([name |-> PStr(<<"E">>),
                                  actors |-> Strs(<< <<"b">> >>)])>> >>),
           ChunkOf(<<"2">>,
             << <<"class", ClassOf(<<"p"," ">>, <<"x","y">>)>>,
                <<"dprop", PropOf(<<"p">>, <<"N">>, <<"n","u","m","b","e","r">>, <<"d">>)>>,
                <<"event", PDict([name |-> PStr(<<"e">>),
                                  actors |-> Strs(<< <<"a">> >>),
                                  description |-> PStr(<<"d">>)])>> >>),
           ChunkOf(<<"3">>,
             << <<"class", ClassOf(<<"p">>, <<>>)>>,
                <<"class", ClassOf(<<"Q">>, <<>>)>>,
                <<"dprop", PropOf(<<"p">>, <<"N">>, <<"S","t","r","i","n","g">>, <<"d","d">>)>>,
                <<"oprop", PropOf(<<"P">>, <<"r">>, <<"Q">>, <<>>)>> >>),
           ChunkOf(<<"4">>,
             << <<"class", ClassOf(<<"P">>, <<"y","z">>)>>,
                <<"oprop", PropOf(<<"p">>, <<"R">>, <<"q">>, <<"x">>)>>,
                <<"warning", PStr(<<"w">>)>> >>) }
    [] family = "projection" ->
         { ChunkOf(<<"1">>,
             << <<"class", ClassOf(<<"A">>, <<"x">>)>>,
                <<"dprop", PropOf(<<"A">>, <<"s">>, <<"s","t","r","i","n","g">>, <<>>)>>,
                <<"dprop", PropOf(<<"A">>, <<"n">>, <<"N","u","m","b","e","r">>, <<"d">>)>>,
                <<"dprop", PropOf(<<"A">>, <<"i">>, <<"I","N","T","E","G","E","R">>, <<>>)>> >>),
           ChunkOf(<<"2">>,
             << <<"dprop", PropOf(<<"A">>, <<"b">>, <<"b","o","o","l","e","a","n">>, <<>>)>>,
                <<"dprop", PropOf(<<"A">>, <<"d">>, <<"D","a","t","e">>, <<>>)>>,
                <<"dprop", PropOf(<<"A">>, <<"t">>, <<"d","a","t","e","T","i","m","e">>, <<>>)>> >>),
           ChunkOf(<<"3">>,
             << <<"dprop", PropOf(<<"A">>, <<"e">>, <<"e","n","u","m">>, <<>>)>>,
                <<"dprop", PropOf(<<"A">>, <<"y">>, <<"A","n","y">>, <<>>)>>,
                <<"dprop", PropOf(<<"A">>, <<"f">>, <<"f","l","o","a","t">>, <<>>)>> >>),
           ChunkOf(<<"4">>,
             << <<"dprop", PropOf(<<"A">>, <<"n">>, <<"s","t","r","i","n","g">>, <<>>)>>,
                <<"dprop", PropOf(<<"a">>, <<"S">>, <<"S","T","R","I","N","G">>, <<"d">>)>>,
                <<"oprop", PropOf(<<"A">>, <<"r">>, <<"B">>, <<>>)>> >>) }
    [] family = "evidence" ->
         { ChunkOf(<<"1">>,
             << <<"class", WithEvidence(ClassOf(<<"A">>, <<>>),
                             PList(<<PDict([quote |-> PStr(<<"q">>)]), PStr(<<"q">>)>>))>>,
                <<"dprop", WithEvidence(PropOf(<<"A">>, <<"n">>, <<"s","t","r","i","n","g">>, <<>>),
                             PDict([chunk_id |-> PStr(<<"9">>),
                                    text |-> PStr(<<" ","t"," ">>)]))>> >>),
           ChunkOf(<<"2">>,
             << <<"class", WithEvidence(ClassOf(<<"a">>, <<"x">>),
                             PList(<<PStr(<<"q">>),
                                     PDict([chunk_id |-> PStr(<<"1">>),
                                            quote |-> PStr(<<"q">>)])>>))>>,
                <<"dprop", WithEvidence(PropOf(<<"a">>, <<"N">>, <<"S","t","r","i","n","g">>, <<>>),
                             PStr(<<"u">>))>> >>),
           ChunkOf(<<>>,
             << <<"class", WithEvidence(ClassOf(<<"A">>, <<>>), PStr(<<"r">>))>>,
                <<"event", WithEvidence(PDict([name |-> PStr(<<"E">>)]),
                             PList(<<PInt(<<"5">>), PNone,
                                     PDict([snippet |-> PStr(<<"s">>)])>>))>> >>),
           ChunkOf(<<"3">>,
             << <<"class", WithEvidence(ClassOf(<<" ","a">>, <<>>), PStr(<<"r">>))>>,
                <<"event", WithEvidence(PDict([name |-> PStr(<<"e">>)]),
                             PDict([quote |-> PStr(<<"s">>)]))>> >>) }
    [] family = "llm" ->
         { ChunkOf(<<"1">>,
             << <<"class", PDict([name |-> PInt(<<"4","2">>)])>> >>),
           ChunkOf(<<"2">>,
             << <<"alias", PStr(<<"A",",","B">>)>>,
                <<"warning", PDict([x |-> PInt(<<"1">>)])>>,
                <<"warning", PInt(<<"5">>)>>,
                <<"warning", PNone>> >>),
           ChunkOf(<<"3">>,
             << <<"class", PStr(<<"s">>)>>,
                <<"class", PDict([description |-> PStr(<<"d">>)])>>,
                <<"dprop", PDict([domain |-> PStr(<<"A">>), name |-> PStr(<<"x">>)])>>,
                <<"event", PDict(<<>>)>> >>),
           ChunkOf(<<"4">>,
             << <<"class", ClassOf(<<"A">>, <<"x">>)>>,
                <<"dprop", PropOf(<<"A">>, <<"x">>, <<"s","t","r","i","n","g">>, <<>>)>> >>) }

\* The lists of at most n slugs.
RECURSIVE SlugLists(_)
SlugLists(n) ==
  IF n = 0 THEN {<<>>}
  ELSE LET shorter == SlugLists(n - 1) IN
       shorter \cup {Append(ss, s) : ss \in shorter, s \in {SlugA, SlugB, SlugUnknown}}

\* Text rdflib cannot parse, and the empty text.
JunkContent == [k |-> "text", v |-> <<"x">>]

EmptyContent == [k |-> "text", v |-> <<>>]

SlugC == <<"c">>

\* The registrations of the runs, as <<slug, content, label, description,
\* namespace, tags>>: first and repeated registrations, an empty slug, an
\* empty content, a text that is no Turtle.
RegPool ==
  { <<PStr(SlugA), GraphA, EmptyStr, EmptyStr, PNone, EmptyList>>,
    <<PStr(SlugA), GraphB, PStr(<<"L">>), PStr(<<"d">>), PStr(NsB),
      Strs(<< <<"t">> >>)>>,
    <<PStr(SlugB), GraphA, PStr(<<"L">>), EmptyStr, PNone, EmptyList>>,
    <<PStr(SlugC), JunkContent, EmptyStr, EmptyStr, PNone, EmptyList>>,
    <<EmptyStr, GraphA, EmptyStr, EmptyStr, PNone, EmptyList>>,
    <<PStr(SlugA), EmptyContent, EmptyStr, EmptyStr, PNone, EmptyList>> }

\* The same, a path to no file, and a file that is no Turtle for a slug
\* that may be registered already, for the register-ontology command.
CliRegPool ==
  RegPool \cup { <<PStr(SlugC), PNone, EmptyStr, EmptyStr, PStr(NsA), EmptyList>>,
                 <<PStr(SlugB), JunkContent, EmptyStr, EmptyStr, PNone, EmptyList>> }

\* The same, and values to trim, for POST /ontologies.
RestRegPool ==
  RegPool \cup { <<PStr(<<" ", "c", " ">>), GraphB, EmptyStr, EmptyStr, PNone, EmptyList>>,
                 <<PStr(SlugB), [k |-> "text", v |-> <<" ">>], EmptyStr, EmptyStr,
                   PNone, EmptyList>> }

\* The catalog directories registrations start from.
RegCatalogs ==
  { [catalog_json |-> PNone, files |-> <<>>],
    CatalogOf(<< <<SlugB, NsB, GraphB>> >>) }

MaxRegs == 2

\* One instance of an instance chunk proposal.
InstanceOf(class, label, id_hint) ==
  PDict([class |-> PStr(class), label |-> PStr(label), id_hint |-> PStr(id_hint)])

\* What the LLM returned for four chunks: an invoice with attributes and a
\* mention, the same invoice found again with a relation, the same class
\* and label in another chunk, and instances whose label is blank or absent.
InstancePool ==
  { PDict([chunk_id |-> PStr(<<"1">>),
           instances |-> PList(<<
             [InstanceOf(<<" ", "I">>, <<"L", " ">>, <<"h">>) EXCEPT
                !.v = @ @@ [attributes |-> PDict([amount |-> PInt(<<"5">>),
                                                  note |-> EmptyStr]),
                            mentions |-> PList(<<PDict([quote |-> PStr(<<"q">>)]),
                                                 PDict([quote |-> PStr(<<" ">>)])>>)]],
             InstanceOf(<<>>, <<"L">>, <<>>) >>)]),
    PDict([chunk_id |-> PStr(<<"1">>),
           instances |-> PList(<<
             InstanceOf(<<"J">>, <<"M">>, <<>>),
             [InstanceOf(<<"I">>, <<"L">>, <<>>) EXCEPT
                !.v = @ @@ [relations |-> PList(<<
                              PDict([predicate |-> PStr(<<"p">>),
                                     target_class |-> PStr(<<"J">>),
                                     target_label |-> PStr(<<"M">>)]) >>)]] >>)]),
    PDict([chunk_id |-> PStr(<<"2">>),
           instances |-> PList(<<
             InstanceOf(<<"I">>, <<"L">>, <<>>),
             [InstanceOf(<<"I">>, <<>>, <<"h", " ">>) EXCEPT
                !.v = @ @@ [mentions |-> PList(<<PDict([quote |-> PStr(<<"r">>)])>>)]] >>)]),
    PDict([chunk_id |-> PStr(<<"3">>),
           instances |-> PList(<<
             InstanceOf(<<"I">>, <<" ">>, <<"h">>),
             PDict([class |-> PStr(<<"I">>)]) >>)]) }

\* The chunk DTOs of the chunks file, by chunk id.
ChunksById ==
  << << <<"1">>, PDict([chunk_id |-> PStr(<<"1">>),
                        provenance |-> PDict([source_path |-> PStr(<<"f">>),
                                              page |-> PInt(<<"7">>)])]) >>,
     << <<"2">>, PDict([chunk_id |-> PStr(<<"2">>)]) >> >>

MaxInstanceChunks == 3

\* The schema_card.json files of the runs on the heap: an empty document and
\* a card without version, aliases and warnings.
RawCards ==
  { PDict(<<>>),
    PDict([namespace |-> PStr(NsA),
           classes |-> PList(<<ClassOf(<<"p">>, <<"x","y","z">>)>>),
           datatype_properties |->
             PList(<<PropOf(<<"P">>, <<"n">>, <<"s","t","r","i","n","g">>, <<>>)>>),
           object_properties |-> EmptyList,
           events |-> PList(<<PDict([name |-> PStr(<<"E">>),
                                     actors |-> Strs(<< <<"c">> >>)])>>)]) }

\* The triples of an ontology file in the namespace NsA, in file order: a
\* property p that may be declared a datatype property, an object property
\* or both, with an XSD range; a property q declared an rdf:Property only,
\* with an XSD range; a property r declared either way or both, with a
\* class as its range; a property s declared an rdf:Property only.
TriplePool ==
  << <<Uri(NsA \o <<"A">>), RDF_type, OWL_Class>>,
     <<Uri(NsA \o <<"p">>), RDF_type, OWL_DatatypeProperty>>,
     <<Uri(NsA \o <<"p">>), RDF_type, OWL_ObjectProperty>>,
     <<Uri(NsA \o <<"p">>), RDFS_range, Uri(XsdIri(<<"i","n","t","e","g","e","r">>))>>,
     <<Uri(NsA \o <<"q">>), RDF_type, RDF_Property>>,
     <<Uri(NsA \o <<"q">>), RDFS_range, Uri(XsdIri(<<"s","t","r","i","n","g">>))>>,
     <<Uri(NsA \o <<"r">>), RDF_type, OWL_ObjectProperty>>,
     <<Uri(NsA \o <<"r">>), RDF_type, OWL_DatatypeProperty>>,
     <<Uri(NsA \o <<"r">>), RDFS_range, Uri(NsA \o <<"A">>)>>,
     <<Uri(NsA \o <<"s">>), RDF_type, RDF_Property>> >>

\* The chunks of an extraction, as their chunk ids.
RetryChunks == << <<"1">>, <<"2">> >>

\* The largest max_retries a caller passes.
MaxRetries == 3

MaxMerges == 2

MaxChunks == 3

MaxSlugs == 3

(***************************************************************************)
(* The state: the files the commands read and write.                       *)
(***************************************************************************)
VARIABLES
  dir,          \* the catalog directory
  card,         \* schema_card.json
  chunk_props,  \* the chunk proposals extracted so far
  proposal,     \* the aggregated proposal (PNone before the first one)
  prev_card,    \* the card the last command started from
  slugs,        \* the slugs of the last composition
  op,           \* the last command: "start", "compose", "extract", "aggregate", "merge"
  raised,       \* the exception the last command raised, "" for none
  family,       \* the family of inputs of the run
  merges,       \* the number of merges run so far
  now,          \* the number of cards written so far
  calls,        \* the registrations that returned, as their entries, in order;
                \* the calls of the LLM of an extraction, in order
  procs,        \* the calls in progress, one record of locals each
  inst_props,   \* the instance proposals of the chunks
  graph,        \* the RDF graph the last export built
  heap          \* the objects of a call of a core function in memory

vars ==
  <<dir, card, chunk_props, proposal, prev_card, slugs, op, raised, family, merges, now,
    calls, procs, inst_props, graph, heap>>

\* The state outside the schema pipeline.
others == <<calls, procs, inst_props, graph, heap>>

\* The all-defaults empty card.
EmptyCard == EnsureSchemaCardDefaults(PDict(<<>>), 0)

\* write_json(out, card) of the card a command built; nothing is written
\* when building it raised.
WriteCard(res) ==
  /\ raised' = IF IsRaise(res) THEN res.v ELSE ""
  /\ card' = IF IsRaise(res) THEN card ELSE res
  /\ prev_card' = card
  /\ now' = now + 1

\* init-schema-card: the card becomes the composition of the baselines.
InitSchemaCard(ss) ==
  /\ op = "start"
  /\ slugs' = ss
  /\ op' = "compose"
  /\ WriteCard(compose_baselines(dir, ss, PNone, now))
  /\ UNCHANGED <<dir, chunk_props, proposal, family, merges, others>>

\* build-schema-card: the aggregated proposal p is merged into the card.
BuildSchemaCard(p) ==
  /\ merges < MaxMerges
  /\ merges' = merges + 1
  /\ proposal' = p
  /\ op' = "merge"
  /\ WriteCard(schema_card_from_proposal(card, p, PNone, now))
  /\ UNCHANGED <<dir, chunk_props, slugs, family, others>>

\* extract_schema_chunk_proposals: the LLM's proposal for the next chunk is
\* appended to the chunk proposals.
ExtractChunk(cp) ==
  /\ op \in {"start", "extract"}
  /\ Len(chunk_props) < MaxChunks
  /\ chunk_props' = Append(chunk_props, cp)
  /\ op' = "extract"
  /\ UNCHANGED <<dir, card, proposal, prev_card, slugs, raised, family, merges, now, others>>

\* write_json(out, aggregated) of extract-schema.
WriteProposal(res) ==
  /\ raised' = IF IsRaise(res) THEN res.v ELSE ""
  /\ proposal' = IF IsRaise(res) THEN proposal ELSE res

\* extract-schema, after the chunks: the chunk proposals are aggregated and
\* the aggregated proposal is written (nothing is written when it raises).
AggregateProposals ==
  /\ op \in {"start", "extract"}
  /\ op' = "aggregate"
  /\ WriteProposal(aggregate_chunk_proposals(chunk_props))
  /\ UNCHANGED <<dir, card, chunk_props, prev_card, slugs, family, merges, now, others>>

\* build-schema-card on the aggregated proposal extract-schema wrote.
BuildFromAggregate ==
  /\ op = "aggregate"
  /\ raised = ""
  /\ BuildSchemaCard(proposal)

InitFiles ==
  /\ chunk_props = <<>>
  /\ proposal = PNone
  /\ slugs = <<>>
  /\ op = "start"
  /\ raised = ""
  /\ merges = 0
  /\ now = 0
  /\ calls = <<>>
  /\ procs = <<>>
  /\ inst_props = <<>>
  /\ graph = <<>>
  /\ heap = <<>>

\* Merges of proposal documents into a card that is empty, stored or composed.
InitMerge ==
  /\ InitFiles
  /\ dir = CatalogAB
  /\ card \in {EmptyCard, StoredCard}
  /\ prev_card = card
  /\ family \in Families

NextMerge ==
  \/ \E ss \in {<<SlugA>>, <<SlugB, SlugA>>} : InitSchemaCard(ss)
  \/ \E p \in Proposals(family) : BuildSchemaCard(p)

SpecMerge == InitMerge /\ [][NextMerge]_vars

\* Merges of proposal documents into a card that was edited by hand.
InitRevise ==
  /\ InitFiles
  /\ dir = CatalogAB
  /\ card = EditedCard
  /\ prev_card = card
  /\ family \in Families

SpecRevise == InitRevise /\ [][NextMerge]_vars

\* Aggregation of well-formed chunk proposals.
InitAgg ==
  /\ InitFiles
  /\ dir = CatalogAB
  /\ card = EmptyCard
  /\ prev_card = EmptyCard
  /\ family = "chunks"

NextAgg ==
  \/ \E cp \in ChunkPool(family) : ExtractChunk(cp)
  \/ AggregateProposals

SpecAgg == InitAgg /\ [][NextAgg]_vars

\* The extraction pipeline on what an unreliable LLM returns: extraction,
\* aggregation, merge.
InitLLM ==
  /\ InitFiles
  /\ dir = CatalogAB
  /\ card = EmptyCard
  /\ prev_card = EmptyCard
  /\ family = "llm"

NextLLM ==
  \/ \E cp \in ChunkPool(family) : ExtractChunk(cp)
  \/ AggregateProposals
  \/ BuildFromAggregate

SpecLLM == InitLLM /\ [][NextLLM]_vars

\* Compositions of baselines from a catalog.
InitCompose ==
  /\ InitFiles
  /\ dir \in Catalogs
  /\ card = EmptyCard
  /\ prev_card = EmptyCard
  /\ family = "baselines"

NextCompose == \E ss \in SlugLists(MaxSlugs) : InitSchemaCard(ss)

SpecCompose == InitCompose /\ [][NextCompose]_vars

\* The end of a registration that ran to st = [dir, l] through an entry point.
EndRegistration(st, entry_point) ==
  /\ now < MaxRegs
  /\ now' = now + 1
  /\ op' = entry_point
  /\ dir' = st.dir
  /\ procs' = <<st.l>>
  /\ raised' = IF IsRaise(st.l.res) THEN st.l.res.v ELSE ""
  /\ calls' = IF IsRaise(st.l.res) THEN calls ELSE Append(calls, st.l)
  /\ UNCHANGED <<card, chunk_props, proposal, prev_card, slugs, family, merges,
                 inst_props, graph, heap>>

\* register-ontology (cli.py, lines 296-323)
RegisterOntology(a) ==
  EndRegistration(register_ontology(dir, a[1], a[2], a[3], a[4], a[5], a[6], now + 1),
                  "register")

\* The MCP tool add_ontology
AddOntology(a) ==
  EndRegistration(McpAddOntology(dir, a[1], a[2], a[3], a[4], a[6], now + 1), "mcp_add")

\* POST /ontologies
PostOntologies(a) ==
  EndRegistration(RestAddOntology(dir, a[1], a[2], a[3], a[4], a[6], now + 1), "rest_add")

\* Registrations one after another.
InitRegister ==
  /\ InitFiles
  /\ dir \in RegCatalogs
  /\ card = EmptyCard
  /\ prev_card = EmptyCard
  /\ family = "registrations"

NextRegister ==
  \/ \E a \in CliRegPool : RegisterOntology(a)
  \/ \E a \in RegPool : AddOntology(a)
  \/ \E a \in RestRegPool : PostOntologies(a)

SpecRegister == InitRegister /\ [][NextRegister]_vars

\* The i-th registration in progress resumes to st = [dir, l].
Resumed(i, st) ==
  /\ dir' = st.dir
  /\ procs' = [procs EXCEPT ![i] = st.l]

\* One statement of the i-th of the registrations in progress.
Statement(i, pc) ==
  /\ procs[i].pc = pc
  /\ now' = now + 1
  /\ op' = pc
  /\ Resumed(i, RegStep([dir |-> dir, l |-> procs[i]], now + 1))
  /\ UNCHANGED <<card, chunk_props, proposal, prev_card, slugs, raised, family,
                 merges, calls, inst_props, graph, heap>>

\* Two registrations at once (two requests of the MCP server, or two
\* register-ontology commands), interleaved statement by statement.
InitRace ==
  /\ InitFiles
  /\ dir \in RegCatalogs
  /\ card = EmptyCard
  /\ prev_card = EmptyCard
  /\ family = "race"

StartRace(a, b) ==
  /\ op = "start"
  /\ op' = "race"
  /\ procs' = << RegStart(a[1], a[2], a[3], a[4], a[5], a[6]),
                 RegStart(b[1], b[2], b[3], b[4], b[5], b[6]) >>
  /\ UNCHANGED <<dir, card, chunk_props, proposal, prev_card, slugs, raised, family,
                 merges, now, calls, inst_props, graph, heap>>

NextRace ==
  \/ \E a, b \in RegPool : StartRace(a, b)
  \/ \E i \in DOMAIN procs : Statement(i, "load")
  \/ \E i \in DOMAIN procs : Statement(i, "copy")
  \/ \E i \in DOMAIN procs : Statement(i, "detect")
  \/ \E i \in DOMAIN procs : Statement(i, "save")

SpecRace == InitRace /\ [][NextRace]_vars

\* The LLM returns the instance proposal of one more chunk.
ExtractInstanceChunk(cp) ==
  /\ op \in {"start", "extract_instances"}
  /\ Len(inst_props) < MaxInstanceChunks
  /\ inst_props' = Append(inst_props, cp)
  /\ op' = "extract_instances"
  /\ UNCHANGED <<dir, card, chunk_props, proposal, prev_card, slugs, raised, family,
                 merges, now, calls, procs, graph, heap>>

\* extract-instances, from the proposals on: the graph of the instances.
ExportInstances ==
  /\ op \in {"start", "extract_instances"}
  /\ op' = "export_instances"
  /\ graph' = instance_proposals_to_graph(
                ChunksById, inst_props, Or(Get(card, "namespace", PNone), DefaultNamespace).v)
  /\ UNCHANGED <<dir, card, chunk_props, proposal, prev_card, slugs, raised, family,
                 merges, now, calls, procs, inst_props, heap>>

\* Extractions of instances under the namespace of a card.
InitInstances ==
  /\ InitFiles
  /\ dir = CatalogAB
  /\ card \in {EmptyCard, [EmptyCard EXCEPT !.v.namespace = PStr(NsA)]}
  /\ prev_card = card
  /\ family = "instances"

NextInstances ==
  \/ \E cp \in InstancePool : ExtractInstanceChunk(cp)
  \/ ExportInstances

SpecInstances == InitInstances /\ [][NextInstances]_vars

\* export-schema-ttl: the aggregated proposal is projected to a graph.
ExportSchemaTtl(namespace) ==
  /\ op = "aggregate"
  /\ raised = ""
  /\ op' = "export_schema_ttl"
  /\ LET g == proposal_to_ttl(proposal, namespace)
     IN /\ raised' = IF IsRaise(g) THEN g.v ELSE ""
        /\ graph' = IF IsRaise(g) THEN graph ELSE g.v
  /\ UNCHANGED <<dir, card, chunk_props, proposal, prev_card, slugs, family, merges,
                 now, calls, procs, inst_props, heap>>

\* Projections of the aggregated proposals of chunks that propose datatype
\* properties of every range.
InitProject ==
  /\ InitFiles
  /\ dir = CatalogAB
  /\ card = EmptyCard
  /\ prev_card = EmptyCard
  /\ family = "projection"

NextProject ==
  \/ \E cp \in ChunkPool(family) : ExtractChunk(cp)
  \/ AggregateProposals
  \/ \E namespace \in {DefaultNamespace.v, NsA} : ExportSchemaTtl(namespace)

SpecProject == InitProject /\ [][NextProject]_vars

\* The chunk proposal read is the last of the chunk proposals in memory.
KeepChunk(read) ==
  /\ heap' = read.h
  /\ chunk_props' = Append(chunk_props, read.val)

\* One more chunk proposal, parsed from the JSON of the extractor, is in memory.
ReadChunk(cp) ==
  /\ op \in {"start", "read"}
  /\ Len(chunk_props) < MaxChunks
  /\ KeepChunk(Alloc(heap, cp))
  /\ op' = "read"
  /\ UNCHANGED <<dir, card, proposal, prev_card, slugs, raised, family, merges, now,
                 calls, procs, inst_props, graph>>

\* The document returned is the proposal in memory.
KeepProposal(res) ==
  /\ heap' = res.h
  /\ proposal' = res.val

\* aggregate_chunk_proposals on the chunk proposals in memory.
CallAggregate ==
  /\ op = "read"
  /\ KeepProposal(HAggregate(heap, chunk_props))
  /\ op' = "aggregate"
  /\ UNCHANGED <<dir, card, chunk_props, prev_card, slugs, raised, family, merges, now,
                 calls, procs, inst_props, graph>>

\* The card returned is the card in memory.
KeepCard(res) ==
  /\ heap' = res.h
  /\ card' = res.val

\* schema_card_from_proposal on the card and the proposal in memory.
CallMerge ==
  /\ op \in {"aggregate", "merge"}
  /\ merges < MaxMerges
  /\ merges' = merges + 1
  /\ KeepCard(HSchemaCardFromProposal(heap, card, proposal, PNone, now))
  /\ prev_card' = card
  /\ now' = now + 1
  /\ op' = "merge"
  /\ UNCHANGED <<dir, chunk_props, proposal, slugs, raised, family, calls, procs,
                 inst_props, graph>>

\* merge_schema_cards(base, overlay): the card that was merged over the card
\* it was merged from.
CallMergeCards ==
  /\ op = "merge"
  /\ KeepCard(HMergeSchemaCards(heap, prev_card, card))
  /\ prev_card' = card
  /\ op' = "merge_cards"
  /\ UNCHANGED <<dir, chunk_props, proposal, slugs, raised, family, merges, now, calls,
                 procs, inst_props, graph>>

\* The card read from its file.
LoadedCard(read) ==
  /\ heap = read.h
  /\ card = read.val
  /\ prev_card = read.val

\* The core operations on documents in memory.
InitFrame ==
  /\ chunk_props = <<>>
  /\ proposal = PNone
  /\ slugs = <<>>
  /\ op = "start"
  /\ raised = ""
  /\ merges = 0
  /\ now = 0
  /\ calls = <<>>
  /\ procs = <<>>
  /\ inst_props = <<>>
  /\ graph = <<>>
  /\ dir = CatalogAB
  /\ family = "chunks"
  /\ \E raw \in RawCards : LoadedCard(Alloc(<<>>, raw))

NextFrame ==
  \/ \E cp \in ChunkPool(family) : ReadChunk(cp)
  \/ CallAggregate
  \/ CallMerge
  \/ CallMergeCards

SpecFrame == InitFrame /\ [][NextFrame]_vars

\* Aggregation of chunk proposals whose entries carry evidence: lists, one
\* dict, one str, items of other types, with and without a chunk_id of
\* their own, from chunks of which one has an empty chunk_id.
InitEvidence ==
  /\ InitFiles
  /\ dir = CatalogAB
  /\ card = EmptyCard
  /\ prev_card = EmptyCard
  /\ family = "evidence"

NextEvidence ==
  \/ \E cp \in ChunkPool(family) : ExtractChunk(cp)
  \/ AggregateProposals

SpecEvidence == InitEvidence /\ [][NextEvidence]_vars

\* One more triple of the ontology file, in file order.
WriteTriple(i) ==
  /\ op = "start"
  /\ \A n \in DOMAIN graph : \E j \in 1..(i - 1) : TriplePool[j] = graph[n]
  /\ graph' = Append(graph, TriplePool[i])
  /\ UNCHANGED <<dir, card, chunk_props, proposal, prev_card, slugs, op, raised, family,
                 merges, now, calls, procs, inst_props, heap>>

\* The card extracted is the card in memory.
Extracted(res, by) ==
  /\ op' = by
  /\ raised' = IF IsRaise(res) THEN res.v ELSE ""
  /\ card' = IF IsRaise(res) THEN card ELSE res
  /\ prev_card' = card
  /\ UNCHANGED <<dir, chunk_props, proposal, slugs, family, merges, now, calls, procs,
                 inst_props, graph, heap>>

\* ttl_to_schema_card on the ontology file, as register_ontology calls it
\* (namespace None) and as compose_baselines does (the entry's namespace).
ExtractCatalogCard(namespace) ==
  /\ op = "start"
  /\ Extracted(ttl_to_schema_card([k |-> "graph", v |-> graph], PStr(SlugA), namespace),
               "ttl_to_schema_card")

\* schema_card_from_ontology_ttl on the ontology file.
ExtractOntologyCard ==
  /\ op = "start"
  /\ Extracted(schema_card_from_ontology_ttl([k |-> "graph", v |-> graph],
                                             TtlPath(SlugA), NsA),
               "schema_card_from_ontology_ttl")

\* Extraction of a schema card from an ontology file.
InitExtract ==
  /\ InitFiles
  /\ dir = CatalogAB
  /\ card = EmptyCard
  /\ prev_card = EmptyCard
  /\ family = "ontology"

NextExtract ==
  \/ \E i \in DOMAIN TriplePool : WriteTriple(i)
  \/ \E namespace \in {PNone, PStr(NsA)} : ExtractCatalogCard(namespace)
  \/ ExtractOntologyCard

SpecExtract == InitExtract /\ [][NextExtract]_vars

\* export-schema-ttl on the schema card, under the namespace of the card.
ExportCardTtl ==
  /\ op \in {"start", "merge"}
  /\ raised = ""
  /\ op' = "export_schema_ttl"
  /\ LET g == proposal_to_ttl(card, card.v.namespace.v)
     IN /\ raised' = IF IsRaise(g) THEN g.v ELSE ""
        /\ graph' = IF IsRaise(g) THEN graph ELSE g.v
  /\ UNCHANGED <<dir, card, chunk_props, proposal, prev_card, slugs, family, merges,
                 now, calls, procs, inst_props, heap>>

\* ttl_to_schema_card on the Turtle file the export wrote, under the same
\* namespace: the card read back is the card in memory.
ReadBackTtl ==
  /\ op = "export_schema_ttl"
  /\ raised = ""
  /\ Extracted(ttl_to_schema_card([k |-> "graph", v |-> graph], PStr(SlugA),
                                  card.v.namespace),
               "ttl_to_schema_card")

\* Schema cards under the namespace NsA through the RDF codec: merged,
\* exported and read back.
InitCodec ==
  /\ InitFiles
  /\ dir = CatalogAB
  /\ card = [EmptyCard EXCEPT !.v.namespace = PStr(NsA)]
  /\ prev_card = card
  /\ family \in {"codec", "dangling"}

NextCodec ==
  \/ \E p \in Proposals(family) : BuildSchemaCard(p)
  \/ ExportCardTtl
  \/ ReadBackTtl

SpecCodec == InitCodec /\ [][NextCodec]_vars

\* The reply of the LLM to the prompt of a chunk.
ReplyData(chunk_id, n) == PDict([chunk_id |-> PStr(chunk_id), reply |-> PInt(n)])

\* The locals of the extraction change; its result is written when it
\* returns (extract-schema, extract-instances write the proposals).
Extracting(l) ==
  /\ procs' = <<l>>
  /\ raised' = l.err
  /\ op' = IF l.pc \in {"done", "raised"} THEN l.fn ELSE op
  /\ chunk_props' = IF l.pc = "done" /\ l.fn = "extract_schema_chunk_proposals"
                    THEN l.out ELSE chunk_props
  /\ inst_props' = IF l.pc = "done" /\ l.fn = "extract_instance_chunk_proposals"
                   THEN l.out ELSE inst_props
  /\ UNCHANGED <<dir, card, proposal, prev_card, slugs, family, merges, now, graph, heap>>

\* extract-schema calls extract_schema_chunk_proposals(chunks, card);
\* extract_instance_chunk_proposals is called with some max_retries.
StartExtraction(fn, max_retries) ==
  /\ op = "start"
  /\ procs = <<>>
  /\ Extracting(ExtractStart(fn, RetryChunks, max_retries))
  /\ UNCHANGED calls

\* The head of the loop over the chunks.
NextChunk ==
  /\ procs # <<>>
  /\ procs[1].pc = "chunk"
  /\ Extracting(ForChunk(procs[1]))
  /\ UNCHANGED calls

\* One attempt: the LLM is called and replies.
CallLLM(reply) ==
  /\ procs # <<>>
  /\ procs[1].pc = "attempt"
  /\ ~AttemptsExhausted(procs[1])
  /\ calls' = Append(calls, [chunk |-> procs[1].i, attempt |-> procs[1].attempt,
                             reply |-> reply])
  /\ Extracting(TryAttempt(procs[1],
                           ReplyData(procs[1].chunks[procs[1].i], Len(calls) + 1), reply))

\* The loop over the attempts ends, or ended with a break.
PauseAfterChunk ==
  /\ procs # <<>>
  /\ \/ procs[1].pc = "attempt" /\ AttemptsExhausted(procs[1])
     \/ procs[1].pc = "pause"
  /\ Extracting(RateLimitPause(procs[1]))
  /\ UNCHANGED calls

\* An extraction over the chunks: of the schema, or of instances with some
\* max_retries.
InitRetry ==
  /\ InitFiles
  /\ dir = CatalogAB
  /\ card = EmptyCard
  /\ prev_card = EmptyCard
  /\ family = "retry"

NextRetry ==
  \/ StartExtraction("extract_schema_chunk_proposals", 3)
  \/ \E max_retries \in 0..MaxRetries :
       StartExtraction("extract_instance_chunk_proposals", max_retries)
  \/ NextChunk
  \/ \E reply \in {"dict", "list", "error"} : CallLLM(reply)
  \/ PauseAfterChunk

SpecRetry == InitRetry /\ [][NextRetry]_vars

\* Every statement of the extraction is run in the end: the calls of the LLM
\* return or time out (timeout=120), the sleeps end.
SpecRetryFair == SpecRetry /\ WF_vars(NextRetry)

(***************************************************************************)
(* Properties.                                                             *)
(***************************************************************************)
\* The items of a list field of a document.
ItemsOf(doc, field) == doc.v[field].v

\* The trimmed lower-cased text of a string field of an entry ("" when absent).
KeyText(entry, field) ==
  IF entry.k = "dict" /\ HasKey(entry, field) /\ entry.v[field].k = "str"
  THEN Lower(Strip(entry.v[field].v)) ELSE <<>>

ClassKeys(items) == {KeyText(items[i], "name") : i \in DOMAIN items}

PropKey(entry) ==
  <<KeyText(entry, "domain"), KeyText(entry, "name"), KeyText(entry, "range")>>

PropKeys(items) == {PropKey(items[i]) : i \in DOMAIN items}

\* The canonical range of a range text: itself lower-cased when that is one
\* of the eight ranges, "any" otherwise.
CanonicalRange(text) ==
  IF Lower(text) \in DT_RANGES THEN Lower(text) ELSE <<"a","n","y">>

\* The range text of a proposal's datatype property ("" when it has none).
RangeText(entry) == IF HasKey(entry, "range") THEN entry.v.range.v ELSE <<>>

\* sub occurs in text
Contains(text, sub) ==
  \E i \in 1..(Len(text) - Len(sub) + 1) : SubSeq(text, i, i + Len(sub) - 1) = sub

\* A warning of the card holds all the parts.
Warned(parts) ==
  \E i \in DOMAIN ItemsOf(card, "warnings") :
    \A j \in DOMAIN parts : Contains(ItemsOf(card, "warnings")[i].v, parts[j])

Merged == op = "merge" /\ raised = ""

\* C1: merge idempotence. After a merge of proposal P into any card, merging
\* the same P into the result leaves classes, datatype properties, object
\* properties and events equal entry for entry, the actors and effects of
\* every event included.
C1_MergeIdempotent ==
  Merged =>
    LET again == schema_card_from_proposal(card, proposal, PNone, now) IN
    /\ ~IsRaise(again)
    /\ again.v.classes = card.v.classes
    /\ again.v.datatype_properties = card.v.datatype_properties
    /\ again.v.object_properties = card.v.object_properties
    /\ again.v.events = card.v.events

\* C3: canonical-range invariant. Every datatype property of a card returned
\* by schema_card_from_proposal, for any previous card and any proposal, or
\* by compose_baselines, has one of the eight canonical ranges.
C3_CanonicalRanges ==
  (op \in {"merge", "compose"} /\ raised = "") =>
    \A i \in DOMAIN ItemsOf(card, "datatype_properties") :
      LET rng == ItemsOf(card, "datatype_properties")[i].v.range IN
      rng.k = "str" /\ rng.v \in DT_RANGES

\* C4: range normalization precedes deduplication. Two datatype properties of
\* the proposal with the same domain and name, whose ranges differ only in
\* letter case or are both not canonical (missing and empty included), make
\* exactly one entry of the card, and its range is the canonical one.
C4_NormalizedBeforeDedup ==
  Merged =>
    LET props == ItemsOf(proposal, "datatype_properties")
        entries == ItemsOf(card, "datatype_properties")
    IN \A i, j \in DOMAIN props :
         LET p == props[i]
             q == props[j]
         IN (/\ KeyText(p, "domain") # <<>>
             /\ KeyText(p, "name") # <<>>
             /\ KeyText(p, "domain") = KeyText(q, "domain")
             /\ KeyText(p, "name") = KeyText(q, "name")
             /\ \/ Lower(RangeText(p)) = Lower(RangeText(q))
                \/ /\ Lower(RangeText(p)) \notin DT_RANGES \ {<<"a","n","y">>}
                   /\ Lower(RangeText(q)) \notin DT_RANGES \ {<<"a","n","y">>})
            => Cardinality({k \in DOMAIN entries :
                   /\ KeyText(entries[k], "domain") = KeyText(p, "domain")
                   /\ KeyText(entries[k], "name") = KeyText(p, "name")
                   /\ entries[k].v.range.v = CanonicalRange(RangeText(p))}) = 1

\* A merge of the four ranges String, string, Decimal and "" of A.x into the
\* empty card left two entries: string and any.
C4_Witness ==
  /\ Merged
  /\ prev_card = EmptyCard
  /\ Len(ItemsOf(proposal, "datatype_properties")) = 4
  /\ {ItemsOf(card, "datatype_properties")[k].v.range.v :
        k \in DOMAIN ItemsOf(card, "datatype_properties")}
       = {<<"s","t","r","i","n","g">>, <<"a","n","y">>}
  /\ Len(ItemsOf(card, "datatype_properties")) = 2

\* C7: dangling references are reported and never fatal. A merge returns a
\* card; every datatype property of it whose domain is no class of the card
\* has a warning naming the property and the domain, every object property
\* has one for a missing domain class and one for a missing range class, and
\* the properties of the proposal are kept in the card.
C7_DanglingReported ==
  op = "merge" =>
    /\ raised = ""
    /\ LET names == ClassKeys(ItemsOf(card, "classes"))
           dprops == ItemsOf(card, "datatype_properties")
           oprops == ItemsOf(card, "object_properties")
       IN /\ \A i \in DOMAIN dprops :
               KeyText(dprops[i], "domain") \notin names =>
                 Warned(<< <<"DatatypeProperty">>, dprops[i].v.name.v,
                           <<" refers to unknown domain class ">>,
                           dprops[i].v.domain.v >>)
          /\ \A i \in DOMAIN oprops :
               /\ KeyText(oprops[i], "domain") \notin names =>
                    Warned(<< <<"ObjectProperty">>, oprops[i].v.name.v,
                              <<" refers to unknown domain class ">>,
                              oprops[i].v.domain.v >>)
               /\ KeyText(oprops[i], "range") \notin names =>
                    Warned(<< <<"ObjectProperty">>, oprops[i].v.name.v,
                              <<" refers to unknown range class ">>,
                              oprops[i].v.range.v >>)
          /\ \A i \in DOMAIN ItemsOf(proposal, "object_properties") :
               LET key == PropKey(ItemsOf(proposal, "object_properties")[i]) IN
               (key[1] # <<>> /\ key[2] # <<>> /\ key[3] # <<>>)
                 => key \in PropKeys(oprops)
          /\ \A i \in DOMAIN ItemsOf(proposal, "datatype_properties") :
               LET q == ItemsOf(proposal, "datatype_properties")[i] IN
               (KeyText(q, "domain") # <<>> /\ KeyText(q, "name") # <<>>)
                 => <<KeyText(q, "domain"), KeyText(q, "name"),
                      CanonicalRange(RangeText(q))>> \in PropKeys(dprops)

\* The object property A.r -> B was merged into a card whose only class is A:
\* the card holds the property and a warning about the range class B.
C7_Witness ==
  /\ Merged
  /\ ClassKeys(ItemsOf(card, "classes")) = {<<"a">>}
  /\ <<<<"a">>, <<"r">>, <<"b">>>> \in PropKeys(ItemsOf(card, "object_properties"))
  /\ Warned(<< <<"r">>, <<" refers to unknown range class ">>, <<"B">> >>)

\* The origin of an entry ("" for none).
OriginOf(entry) == Get(entry, "origin", EmptyStr)

\* The key the merger files an entry of a list under: the name of a class or
\* event, the (domain, name, range) of a property, the range of a proposal's
\* datatype property being the canonical one.
MergeKey(entry, field, proposed) ==
  IF field \in {"classes", "events"} THEN <<KeyText(entry, "name")>>
  ELSE IF field = "datatype_properties" /\ proposed
  THEN <<KeyText(entry, "domain"), KeyText(entry, "name"),
         CanonicalRange(RangeText(entry))>>
  ELSE PropKey(entry)

\* The merger files the entry: it has a name, a property a domain, an object
\* property a range.
Filed(entry, field) ==
  /\ KeyText(entry, "name") # <<>>
  /\ field \in {"datatype_properties", "object_properties"}
       => KeyText(entry, "domain") # <<>>
  /\ field = "object_properties" => KeyText(entry, "range") # <<>>

\* C11: origin is write-once. After a merge, every entry of the previous card
\* is in the new card under its key with the origin, name, domain and range
\* it had, whatever the proposal says for that key; and every entry the
\* proposal introduced has the origin of the first proposal entry of its key,
\* "induced" when that entry carries none.
C11_OriginWriteOnce ==
  Merged =>
    \A field \in {"classes", "datatype_properties", "object_properties", "events"} :
      LET before == ItemsOf(prev_card, field)
          after == ItemsOf(card, field)
          given == ItemsOf(proposal, field)
          hits(key) == {o \in DOMAIN after : MergeKey(after[o], field, FALSE) = key}
      IN /\ \A i \in DOMAIN before :
              Filed(before[i], field) =>
                /\ Cardinality(hits(MergeKey(before[i], field, FALSE))) = 1
                /\ \A o \in hits(MergeKey(before[i], field, FALSE)) :
                     /\ OriginOf(after[o]) = OriginOf(before[i])
                     /\ after[o].v.name = before[i].v.name
                     /\ field \notin {"classes", "events"} =>
                          /\ after[o].v.domain = before[i].v.domain
                          /\ after[o].v.range = before[i].v.range
         /\ \A i \in DOMAIN given :
              LET key == MergeKey(given[i], field, TRUE)
                  same == {j \in DOMAIN given : MergeKey(given[j], field, TRUE) = key}
                  first == CHOOSE j \in same : \A o \in same : j <= o
              IN (/\ Filed(given[i], field)
                  /\ \A b \in DOMAIN before : MergeKey(before[b], field, FALSE) # key)
                 => /\ Cardinality(hits(key)) = 1
                    /\ \A o \in hits(key) :
                         OriginOf(after[o]) = Get(given[first], "origin", Induced)

\* A proposal whose class "a" carries the origin "o2" was merged into the
\* composition of baseline a: the class A of the card still has origin "a",
\* and the event E the proposal introduced has the origin "o1" it carried.
C11_Witness ==
  /\ Merged
  /\ \E i \in DOMAIN ItemsOf(proposal, "classes") :
       /\ KeyText(ItemsOf(proposal, "classes")[i], "name") = <<"a">>
       /\ OriginOf(ItemsOf(proposal, "classes")[i]) = PStr(<<"o","2">>)
  /\ \E i \in DOMAIN ItemsOf(prev_card, "classes") :
       /\ ItemsOf(prev_card, "classes")[i].v.name = PStr(<<"A">>)
       /\ OriginOf(ItemsOf(prev_card, "classes")[i]) = PStr(SlugA)
  /\ \E i \in DOMAIN ItemsOf(card, "classes") :
       /\ ItemsOf(card, "classes")[i].v.name = PStr(<<"A">>)
       /\ OriginOf(ItemsOf(card, "classes")[i]) = PStr(SlugA)
  /\ \E i \in DOMAIN ItemsOf(card, "events") :
       OriginOf(ItemsOf(card, "events")[i]) = PStr(<<"o","1">>)

\* The chunk proposals in the order a permutation of the positions gives.
Permuted(f) == [i \in DOMAIN chunk_props |-> chunk_props[f[i]]]

Aggregated == op = "aggregate" /\ raised = ""

\* C2: aggregator order-independence. For every permutation of the chunk
\* proposals the aggregator returns the same set of class keys, of datatype-
\* and object-property keys and of event keys.
C2_OrderIndependent ==
  Aggregated =>
    \A f \in Permutations(DOMAIN chunk_props) :
      LET other == aggregate_chunk_proposals(Permuted(f)) IN
      /\ ~IsRaise(other)
      /\ ClassKeys(ItemsOf(other, "classes")) = ClassKeys(ItemsOf(proposal, "classes"))
      /\ PropKeys(ItemsOf(other, "datatype_properties"))
           = PropKeys(ItemsOf(proposal, "datatype_properties"))
      /\ PropKeys(ItemsOf(other, "object_properties"))
           = PropKeys(ItemsOf(proposal, "object_properties"))
      /\ ClassKeys(ItemsOf(other, "events")) = ClassKeys(ItemsOf(proposal, "events"))

\* Three chunk proposals were aggregated, and some other order of them gives
\* a different document (with the same key sets).
C2_Witness ==
  /\ Aggregated
  /\ Len(chunk_props) = 3
  /\ Len(ItemsOf(proposal, "datatype_properties")) >= 2
  /\ \E f \in Permutations(DOMAIN chunk_props) :
       aggregate_chunk_proposals(Permuted(f)) # proposal

\* The entries the chunk proposals contribute to a list, in list order.
RECURSIVE Contributed(_, _)
Contributed(chunks, field) ==
  IF chunks = <<>> THEN <<>>
  ELSE (IF Head(chunks).v.proposed_additions.v[field].k = "list"
        THEN Head(chunks).v.proposed_additions.v[field].v ELSE <<>>)
       \o Contributed(Tail(chunks), field)

\* The dedup key of an entry of a list: the name of a class or event, the
\* (domain, name, range) of a property; <<>> when a part is missing.
EntryKey(entry, field) ==
  IF field \in {"classes", "events"}
  THEN (IF KeyText(entry, "name") = <<>> THEN <<>> ELSE <<KeyText(entry, "name")>>)
  ELSE (IF \E part \in 1..3 : PropKey(entry)[part] = <<>> THEN <<>> ELSE PropKey(entry))

DescriptionOf(entry) ==
  IF HasKey(entry, "description") THEN entry.v.description.v ELSE <<>>

\* C6: aggregator dedup with the longest-description tie-break. For every
\* key the chunk proposals contribute, the aggregated list holds exactly one
\* entry; its name is spelled as in the first contribution, and its
\* description is a contributed one of maximal length (non-empty as soon as
\* one contribution has a description).
C6_DedupLongestDescription ==
  Aggregated =>
    \A field \in {"classes", "datatype_properties", "object_properties", "events"} :
      LET given == Contributed(chunk_props, field)
          out == ItemsOf(proposal, field)
      IN \A i \in DOMAIN given :
           LET key == EntryKey(given[i], field)
               same == {j \in DOMAIN given : EntryKey(given[j], field) = key}
               first == CHOOSE j \in same : \A o \in same : j <= o
               hits == {o \in DOMAIN out : EntryKey(out[o], field) = key}
           IN key # <<>> =>
                /\ Cardinality(hits) = 1
                /\ \A o \in hits :
                     /\ out[o].v.name = given[first].v.name
                     /\ \E j \in same : DescriptionOf(out[o]) = DescriptionOf(given[j])
                     /\ \A j \in same :
                          Len(DescriptionOf(given[j])) <= Len(DescriptionOf(out[o]))

\* Class "P" described "x" and then class "p " described "xy" were
\* aggregated into the one class "P" described "xy".
C6_Witness ==
  /\ Aggregated
  /\ Len(chunk_props) = 2
  /\ chunk_props[1].v.chunk_id.v = <<"1">>
  /\ chunk_props[2].v.chunk_id.v = <<"2">>
  /\ Len(ItemsOf(proposal, "classes")) = 1
  /\ ItemsOf(proposal, "classes")[1].v.name.v = <<"P">>
  /\ ItemsOf(proposal, "classes")[1].v.description.v = <<"x","y">>

\* C9: the aggregator never fails on a malformed entry. Whatever the shape
\* of the entries of the chunk proposals, the aggregation completes, and
\* every class with a name of the chunk proposals is aggregated.
C9_AggregatorNeverFails ==
  op = "aggregate" =>
    /\ raised = ""
    /\ \A i \in DOMAIN Contributed(chunk_props, "classes") :
         LET key == EntryKey(Contributed(chunk_props, "classes")[i], "classes") IN
         key # <<>> => key[1] \in ClassKeys(ItemsOf(proposal, "classes"))

\* C10: an aggregation-then-merge run always completes. The merge of what
\* the aggregator returned, malformed warnings and merge suggestions
\* included, returns a card.
C10_PipelineCompletes ==
  op = "merge" => raised = ""

\* The slugs of the manifest of the catalog directory.
Registered ==
  {load_catalog(dir).v.ontologies.v[i].v.slug.v :
     i \in DOMAIN load_catalog(dir).v.ontologies.v}

\* The card of one baseline, as the composition of that baseline alone.
Baseline(slug) == compose_baselines(dir, <<slug>>, PNone, now)

\* The entry of a key in a list of entries.
EntryAt(items, field, key) ==
  items[CHOOSE i \in DOMAIN items : EntryKey(items[i], field) = key]

Composed == op = "compose" /\ raised = ""

\* C5: baseline composition is first-seen-wins and permutation-stable in its
\* key sets. The composition of the slugs in reverse order has the same
\* class names and property keys, and every class and property of the
\* composition has the description and origin it has in the first requested
\* baseline that defines its key.
C5_FirstSeenWins ==
  Composed =>
    LET rev == compose_baselines(dir, Reverse(slugs), PNone, now) IN
    /\ ~IsRaise(rev)
    /\ \A field \in {"classes", "datatype_properties", "object_properties"} :
         /\ {EntryKey(ItemsOf(rev, field)[i], field) : i \in DOMAIN ItemsOf(rev, field)}
              = {EntryKey(ItemsOf(card, field)[i], field) : i \in DOMAIN ItemsOf(card, field)}
         /\ \A i \in DOMAIN ItemsOf(card, field) :
              LET e == ItemsOf(card, field)[i]
                  key == EntryKey(e, field)
                  defining == {j \in DOMAIN slugs :
                                 /\ slugs[j] \in Registered
                                 /\ \E n \in DOMAIN ItemsOf(Baseline(slugs[j]), field) :
                                      EntryKey(ItemsOf(Baseline(slugs[j]), field)[n], field) = key}
              IN key # <<>> =>
                   /\ defining # {}
                   /\ LET first == CHOOSE j \in defining : \A o \in defining : j <= o
                          src == EntryAt(ItemsOf(Baseline(slugs[first]), field), field, key)
                      IN /\ e.v.description = src.v.description
                         /\ e.v.origin = src.v.origin
                         /\ e.v.origin = PStr(slugs[first])

\* Baseline b then baseline a were composed: the class both define is b's,
\* and the composition of a then b is a different card.
C5_Witness ==
  /\ Composed
  /\ slugs = <<SlugB, SlugA>>
  /\ {SlugA, SlugB} \subseteq Registered
  /\ EntryAt(ItemsOf(card, "classes"), "classes", << <<"a">> >>).v.origin = PStr(SlugB)
  /\ EntryAt(ItemsOf(card, "classes"), "classes", << <<"a">> >>).v.description
       = PStr(<<"b">>)
  /\ compose_baselines(dir, Reverse(slugs), PNone, now).v.classes # card.v.classes

\* C8: unknown baseline slugs are tolerated. A composition never raises for
\* a slug absent from the catalog: the card has a warning naming each absent
\* slug, and every class and property of the requested registered baselines,
\* wherever the absent slugs stand in the list.
C8_UnknownSlugsTolerated ==
  op = "compose" =>
    /\ raised = ""
    /\ \A i \in DOMAIN slugs :
         IF slugs[i] \notin Registered
         THEN Warned(<< <<"Baseline '">>, slugs[i], <<"' not found in catalog.">> >>)
         ELSE \A field \in {"classes", "datatype_properties", "object_properties"} :
                \A n \in DOMAIN ItemsOf(Baseline(slugs[i]), field) :
                  \E m \in DOMAIN ItemsOf(card, field) :
                    EntryKey(ItemsOf(card, field)[m], field)
                      = EntryKey(ItemsOf(Baseline(slugs[i]), field)[n], field)

\* The unknown slug z stood before the registered baseline a: the card has
\* the warning about z and the class A of a.
C8_Witness ==
  /\ Composed
  /\ slugs = <<SlugUnknown, SlugA>>
  /\ SlugA \in Registered
  /\ Warned(<< <<"Baseline '">>, SlugUnknown >>)
  /\ << <<"a">> >> \in
       {EntryKey(ItemsOf(card, "classes")[i], "classes") : i \in DOMAIN ItemsOf(card, "classes")}

\* The entries of the persisted manifest.
Manifest == ItemsOf(load_catalog(dir), "ontologies")

\* C12: registration validates before any side effect. A registration with
\* an empty slug or an empty ontology content, through register_ontology,
\* the MCP tool add_ontology or POST /ontologies, fails, and leaves every
\* file of the catalog directory and the manifest as they were.
C12_ValidatedBeforeSideEffect ==
  [][(/\ op' \in {"register", "mcp_add", "rest_add"}
      /\ \/ procs'[1].slug.v = <<>>
         \/ IsEmptyContent(procs'[1].src))
     => (raised' # "" /\ dir' = dir)]_vars

\* The calls of the log that registered the slug.
CallsOf(slug) == {i \in DOMAIN calls : calls[i].slug = slug}

\* C13: manifest invariant under serialized registration. The manifest holds
\* exactly one entry for every slug registered, the entry the most recent
\* registration of the slug returned, with the label (the slug when empty),
\* namespace (the one of the content's subjects when none was passed),
\* description, path and tags of that registration; an entry of
\* a slug not registered in the run is as it was; and the entries are in
\* ascending slug order.
C13_ManifestInvariant ==
  /\ \A i \in DOMAIN calls :
       LET last == calls[CHOOSE j \in CallsOf(calls[i].slug) :
                           \A o \in CallsOf(calls[i].slug) : o <= j]
           hits == {m \in DOMAIN Manifest : Manifest[m].v.slug = calls[i].slug}
       IN /\ Cardinality(hits) = 1
          /\ \A m \in hits :
               /\ Manifest[m] = last.res
               /\ Manifest[m].v.label
                    = (IF last.label = EmptyStr THEN last.slug ELSE last.label)
               /\ Manifest[m].v.description = last.description
               /\ Manifest[m].v.tags = last.tags
               /\ Manifest[m].v.path = PStr(last.slug.v \o <<".ttl">>)
               /\ Manifest[m].v.namespace
                    = (IF last.given # PNone THEN last.given
                       ELSE IF last.src = GraphA THEN PStr(NsA)
                       ELSE IF last.src = GraphB THEN PStr(NsB)
                       ELSE EmptyStr)
  /\ \A m \in DOMAIN Manifest :
       CallsOf(Manifest[m].v.slug) = {} => Manifest[m] = ManifestEntry(SlugB, NsB)
  /\ \A m, n \in DOMAIN Manifest :
       m < n => StrLess(Manifest[m].v.slug.v, Manifest[n].v.slug.v)

\* Baseline a was registered twice, with different labels and tags, in a
\* catalog that held baseline b: the manifest holds a, as registered last,
\* before b.
C13_Witness ==
  /\ Len(calls) = 2
  /\ calls[1].slug = PStr(SlugA)
  /\ calls[2].slug = PStr(SlugA)
  /\ calls[1].res # calls[2].res
  /\ Len(Manifest) = 2
  /\ Manifest[1] = calls[2].res
  /\ Manifest[2].v.slug = PStr(SlugB)

\* Both registrations in progress returned an entry, and both loaded the
\* manifest before either saved it.
RacedToTheEnd ==
  /\ Len(procs) = 2
  /\ \A i \in DOMAIN procs : procs[i].pc = "done" /\ procs[i].res.k = "dict"
  /\ \A i, j \in DOMAIN procs : procs[i].loaded < procs[j].saved

\* The entry of a slug in a list of manifest entries, PNone for none.
EntryOfSlug(entries, slug) ==
  IF \E m \in DOMAIN entries : entries[m].v.slug = slug
  THEN entries[CHOOSE m \in DOMAIN entries : entries[m].v.slug = slug]
  ELSE PNone

\* C14: unguarded read-modify-write of the manifest. When two registrations
\* both load the manifest before either saves it and both return their
\* entry, the final manifest is the one the last saver wrote: the manifest
\* both loaded with the last saver's entry upserted, so that the entry the
\* other call returned is not in it.
C14_LastWriteWins ==
  RacedToTheEnd =>
    \A w, o \in DOMAIN procs :
      procs[o].saved < procs[w].saved =>
        LET loaded == ItemsOf(procs[w].catalog, "ontologies") IN
        /\ procs[o].catalog = procs[w].catalog
        /\ \A m, n \in DOMAIN Manifest :
             Manifest[m].v.slug = Manifest[n].v.slug => m = n
        /\ EntryOfSlug(Manifest, procs[w].slug) = procs[w].res
        /\ \A m \in DOMAIN Manifest :
             Manifest[m].v.slug # procs[w].slug
               => Manifest[m] = EntryOfSlug(loaded, Manifest[m].v.slug)
        /\ \A m \in DOMAIN loaded :
             EntryOfSlug(Manifest, loaded[m].v.slug) # PNone
        /\ procs[o].slug # procs[w].slug
             => EntryOfSlug(Manifest, procs[o].slug) # procs[o].res

\* Baselines a and b were registered at once in an empty catalog, both
\* calls returned, and the manifest only holds the one saved last.
C14_Witness ==
  /\ RacedToTheEnd
  /\ procs[1].slug = PStr(SlugA)
  /\ procs[2].slug = PStr(SlugB)
  /\ procs[1].saved < procs[2].saved
  /\ Len(Manifest) = 1
  /\ Manifest[1] = procs[2].res

\* The namespace the exported instances live in.
ExportNamespace == IF card.v.namespace.v = <<>> THEN DefaultNamespace.v
                   ELSE card.v.namespace.v

\* What identifies an instance: its class name, its trimmed label (the id
\* hint when it has no label) and the chunk it was found in.
IdentityOf(inst, chunk_id) ==
  LET field(f) == IF f \in DOMAIN inst.v THEN inst.v[f].v ELSE <<>>
  IN <<Strip(field("class")),
       Strip(IF field("label") # <<>> THEN field("label") ELSE field("id_hint")),
       chunk_id>>

\* The IRI of an identity: namespace + className + "/" + digest.
IriOf(id) ==
  Uri(ExportNamespace \o id[1] \o <<"/">>
        \o Sha1Hex10(id[1] \o <<"|">> \o id[2] \o <<"|">> \o id[3]))

\* The identities of the instances of the proposals, and of the targets of
\* their relations.
InstanceIdentities ==
  { IdentityOf(inst_props[i].v.instances.v[j], inst_props[i].v.chunk_id.v) :
      i \in DOMAIN inst_props, j \in 1..2 }

TargetIdentities ==
  UNION { LET inst == inst_props[i].v.instances.v[j]
              rels == IF "relations" \in DOMAIN inst.v THEN inst.v.relations.v ELSE <<>>
          IN { <<rels[r].v.target_class.v, rels[r].v.target_label.v,
                 inst_props[i].v.chunk_id.v>> : r \in DOMAIN rels } :
          i \in DOMAIN inst_props, j \in 1..2 }

\* The subjects the graph types as instances of a class.
TypedInstances ==
  { graph[t][1] : t \in { t \in DOMAIN graph : /\ graph[t][2] = RDF_type
                                                /\ graph[t][1].k = "uri" } }

\* C16: the IRI of an instance is a function of the namespace, the class
\* name, the trimmed label (the id hint for an instance without label) and
\* the chunk id: every instance with a class is typed under namespace +
\* className + "/" + digest of that identity, whatever else was extracted and
\* in whatever order, and the graph types no other subject.
C16_StableInstanceIri ==
  op = "export_instances" =>
    /\ \A id \in InstanceIdentities :
         id[1] # <<>> =>
           \E t \in DOMAIN graph :
             graph[t] = <<IriOf(id), RDF_type, Uri(ExportNamespace \o id[1])>>
    /\ TypedInstances =
         { IriOf(id) : id \in { x \in InstanceIdentities \cup TargetIdentities :
                                  x[1] # <<>> } }

\* The same invoice was extracted twice from one chunk, by two proposals that
\* differ, and from another chunk: two instances in the graph, not three.
C16_Witness ==
  /\ op = "export_instances"
  /\ Len(inst_props) = 3
  /\ \E i, j, k \in DOMAIN inst_props :
       /\ i # j /\ inst_props[i] # inst_props[j]
       /\ inst_props[i].v.chunk_id = inst_props[j].v.chunk_id
       /\ inst_props[k].v.chunk_id # inst_props[i].v.chunk_id
       /\ \E a, b, c \in 1..2 :
            /\ inst_props[i].v.instances.v[a] # inst_props[j].v.instances.v[b]
            /\ IdentityOf(inst_props[i].v.instances.v[a], <<>>) = << <<"I">>, <<"L">>, <<>> >>
            /\ IdentityOf(inst_props[j].v.instances.v[b], <<>>) = << <<"I">>, <<"L">>, <<>> >>
            /\ IdentityOf(inst_props[k].v.instances.v[c], <<>>) = << <<"I">>, <<"L">>, <<>> >>
  /\ Cardinality({ x \in TypedInstances :
                     \E t \in DOMAIN graph :
                       graph[t] = <<x, RDFS_label, Literal(<<"L">>)>> }) = 2

\* No string is twice in the list ws.
NoRepeat(ws) == \A i, j \in DOMAIN ws : i # j => ws[i] # ws[j]

\* C17: the warnings of every produced document are duplicate-free: the
\* card that init-schema-card composes or build-schema-card merges, and the
\* proposal the aggregator writes, hold no warning twice.
C17_WarningsDuplicateFree ==
  raised = "" =>
    /\ op \in {"compose", "merge"} => NoRepeat(card.v.warnings.v)
    /\ op = "aggregate" => NoRepeat(proposal.v.warnings.v)

\* The keys of the entries of a list, lower-cased: the fields of every entry.
LowerKeys(entries, fields) ==
  [i \in DOMAIN entries |->
     [f \in DOMAIN fields |-> Lower(entries[i].v[fields[f]].v)]]

\* The keys are in ascending order.
Ascending(keys) ==
  \A i, j \in DOMAIN keys : i < j => ~TupleLess(keys[j], keys[i])

\* C18: the collections of the aggregated proposal are sorted: classes and
\* events by name, properties by (domain, name, range), case-insensitively.
C18_AggregateSorted ==
  (op = "aggregate" /\ raised = "") =>
    /\ Ascending(LowerKeys(proposal.v.classes.v, <<"name">>))
    /\ Ascending(LowerKeys(proposal.v.datatype_properties.v,
                           <<"domain", "name", "range">>))
    /\ Ascending(LowerKeys(proposal.v.object_properties.v,
                           <<"domain", "name", "range">>))
    /\ Ascending(LowerKeys(proposal.v.events.v, <<"name">>))

\* The member names of an alias group, trimmed and lower-cased, as a set.
NameSet(group) ==
  {Lower(Strip(group.v.names.v[i].v)) : i \in DOMAIN group.v.names.v} \ {<<>>}

RationaleOf(group) ==
  IF "rationale" \in DOMAIN group.v THEN Strip(group.v.rationale.v) ELSE <<>>

\* C19: the alias groups of the previous card followed by the merge
\* suggestions of the proposal are de-duplicated by their set of member names
\* (lower-cased, in any order): the merged card holds one group per set of
\* names, with the rationale of the first group seen with it, and no group
\* of the groups without any non-empty name.
C19_AliasGroupsDeduplicated ==
  (op = "merge" /\ raised = "") =>
    LET out == card.v.aliases.v
        given == prev_card.v.aliases.v \o proposal.v.merge_suggestions.v
    IN /\ \A i, j \in DOMAIN out : i # j => NameSet(out[i]) # NameSet(out[j])
       /\ {NameSet(out[i]) : i \in DOMAIN out}
            = {NameSet(given[i]) : i \in DOMAIN given} \ {{}}
       /\ \A i \in DOMAIN out :
            \E g \in DOMAIN given :
              /\ NameSet(given[g]) = NameSet(out[i])
              /\ \A e \in 1..(g - 1) : NameSet(given[e]) # NameSet(out[i])
              /\ RationaleOf(given[g]) = out[i].v.rationale.v

\* The canonical range table: the XSD datatype of a range.
CanonicalXsd(range) ==
  LET r == Lower(range)
  IN CASE r = <<"n","u","m","b","e","r">> -> <<"d","e","c","i","m","a","l">>
       [] r = <<"i","n","t","e","g","e","r">> -> <<"i","n","t","e","g","e","r">>
       [] r = <<"b","o","o","l","e","a","n">> -> <<"b","o","o","l","e","a","n">>
       [] r = <<"d","a","t","e">> -> <<"d","a","t","e">>
       [] r = <<"d","a","t","e","t","i","m","e">> -> <<"d","a","t","e","T","i","m","e">>
       [] OTHER -> <<"s","t","r","i","n","g">>

\* The pairs <<property, range>> of the datatype properties of the graph.
DatatypeRanges ==
  { <<graph[t][1], graph[t][3]>> :
      t \in { t \in DOMAIN graph :
                /\ graph[t][2] = RDFS_range
                /\ \E u \in DOMAIN graph :
                     graph[u] = <<graph[t][1], RDF_type, OWL_DatatypeProperty>> } }

\* C20: the projected graph gives every datatype property of the proposal the
\* rdfs:range of the canonical table for its range, looked up
\* case-insensitively (xsd:string for a range outside the table), and no
\* other range.
C20_CanonicalRangeTable ==
  (op = "export_schema_ttl" /\ raised = "") =>
    \E ns \in {DefaultNamespace.v, NsA} :
      DatatypeRanges =
        { <<Uri(ns \o proposal.v.datatype_properties.v[i].v.name.v),
            Uri(XsdIri(CanonicalXsd(proposal.v.datatype_properties.v[i].v.range.v)))>> :
            i \in DOMAIN proposal.v.datatype_properties.v }

\* All nine ranges were projected: the eight of the table, some in upper
\* case, and one outside it.
C20_Witness ==
  /\ op = "export_schema_ttl"
  /\ raised = ""
  /\ Cardinality({Lower(proposal.v.datatype_properties.v[i].v.range.v) :
                    i \in DOMAIN proposal.v.datatype_properties.v}) = 9
  /\ Cardinality({pr[2] : pr \in DatatypeRanges}) = 6

\* The documents of the chunk proposals in memory.
ChunkDocs == [i \in DOMAIN chunk_props |-> Load(heap, chunk_props[i])]

\* The operations on the heap return the documents the operations on
\* documents return.
HeapAgrees ==
  /\ op = "aggregate" => Load(heap, proposal) = aggregate_chunk_proposals(ChunkDocs)
  /\ op = "merge" =>
       Load(heap, card) = schema_card_from_proposal(Load(heap, prev_card),
                                                    Load(heap, proposal), PNone, now - 1)

\* C15: the core operations do not mutate their inputs: every object that
\* exists when aggregate_chunk_proposals, schema_card_from_proposal or
\* merge_schema_cards is called (the chunk proposals and their entries, the
\* previous card, the aggregated proposal, base and overlay among them) is
\* the same object, with the same value, when the call returns.
C15_InputsNotMutated ==
  [][\A a \in DOMAIN heap : a \in DOMAIN heap' /\ heap'[a] = heap[a]]_vars

\* The three operations were called in turn on three chunk proposals, the
\* operations on the heap returning what the operations on documents
\* return; the aggregated proposal holds an actors list of a chunk proposal,
\* and the card of merge_schema_cards a class entry of its overlay.
C15_Witness ==
  /\ op = "merge_cards"
  /\ Len(chunk_props) = 3
  /\ Load(heap, proposal) = aggregate_chunk_proposals(ChunkDocs)
  /\ \E e \in DOMAIN HItems(heap, HGet(heap, proposal, "events", PNone)) :
       \E i \in DOMAIN chunk_props :
         \E x \in DOMAIN HItems(heap, HGet(heap, HGet(heap, chunk_props[i],
                                  "proposed_additions", PNone), "events", PNone)) :
           HGet(heap, HItems(heap, HGet(heap, proposal, "events", PNone))[e],
                "actors", PNone)
             = HGet(heap, HItems(heap, HGet(heap, HGet(heap, chunk_props[i],
                      "proposed_additions", PNone), "events", PNone))[x], "actors", PNone)
  /\ \E c \in DOMAIN HItems(heap, HGet(heap, card, "classes", PNone)) :
       \E o \in DOMAIN HItems(heap, HGet(heap, prev_card, "classes", PNone)) :
         HItems(heap, HGet(heap, card, "classes", PNone))[c]
           = HItems(heap, HGet(heap, prev_card, "classes", PNone))[o]

\* The (chunk_id, quote) pairs of a sequence of evidence items.
PairOf(e) == <<e.v.chunk_id.v, e.v.quote.v>>

Pairs(items) == {PairOf(items[i]) : i \in DOMAIN items}

EvidenceOf(entry) == IF HasKey(entry, "evidence") THEN entry.v.evidence.v ELSE <<>>

ListFields == {"classes", "datatype_properties", "object_properties", "events"}

\* C21: evidence is deduplicated by the pair (chunk_id, quote). In every
\* aggregated proposal no evidence list holds the same pair twice, and
\* every other order of the chunk proposals gives every key the same set
\* of pairs.
C21_EvidenceDeduplicated ==
  Aggregated =>
    /\ \A field \in ListFields : \A i \in DOMAIN ItemsOf(proposal, field) :
         LET ev == EvidenceOf(ItemsOf(proposal, field)[i]) IN
         \A j, k \in DOMAIN ev : j < k => PairOf(ev[j]) # PairOf(ev[k])
    /\ \A f \in Permutations(DOMAIN chunk_props) :
         LET other == aggregate_chunk_proposals(Permuted(f)) IN
         \A field \in ListFields : \A i \in DOMAIN ItemsOf(proposal, field) :
           \E j \in DOMAIN ItemsOf(other, field) :
             /\ EntryKey(ItemsOf(other, field)[j], field)
                  = EntryKey(ItemsOf(proposal, field)[i], field)
             /\ Pairs(EvidenceOf(ItemsOf(other, field)[j]))
                  = Pairs(EvidenceOf(ItemsOf(proposal, field)[i]))

\* The pairs the chunk proposals contribute to a key of a list: each
\* fragment with the chunk_id it gives, or else the chunk_id of its own
\* chunk proposal.
Attributed(field, key) ==
  UNION { Pairs(NormalizeEvidence(Get(it, "evidence", EmptyList),
                                  PyStr(Or(Get(chunk_props[c], "chunk_id", PNone),
                                           EmptyStr)))) :
            <<c, it>> \in { <<c, it>> \in
                 UNION { {c} \X { Contributed(<<chunk_props[c]>>, field)[n] :
                                    n \in DOMAIN Contributed(<<chunk_props[c]>>, field) } :
                         c \in DOMAIN chunk_props } :
                 EntryKey(it, field) = key } }

\* C22: evidence attribution. Every evidence item of the aggregated
\* proposal carries the chunk_id its fragment gave or, the fragment giving
\* none, the chunk_id of the chunk proposal that contributed the fragment.
C22_EvidenceAttributed ==
  Aggregated =>
    \A field \in ListFields : \A i \in DOMAIN ItemsOf(proposal, field) :
      Pairs(EvidenceOf(ItemsOf(proposal, field)[i]))
        \subseteq Attributed(field, EntryKey(ItemsOf(proposal, field)[i], field))

\* The properties the ontology file declares: the IRIs typed as a datatype
\* property, an object property or an rdf:Property.
DeclaredAs(p, type) == \E n \in DOMAIN graph : graph[n] = <<p, RDF_type, type>>

DeclaredProperties ==
  {graph[n][1] : n \in {n \in DOMAIN graph :
      /\ graph[n][1].k = "uri"
      /\ graph[n][2] = RDF_type
      /\ graph[n][3] \in {OWL_DatatypeProperty, OWL_ObjectProperty, RDF_Property}}}

\* The declared range of the property is an XSD datatype IRI.
RangeIsXsd(p) ==
  \E n \in DOMAIN graph :
    /\ graph[n][1] = p /\ graph[n][2] = RDFS_range
    /\ graph[n][3].k = "uri" /\ StartsWith(graph[n][3].v, XSD_NS)

\* The entries of a list of the card for the property (its local name).
EntriesFor(field, p) ==
  {i \in DOMAIN ItemsOf(card, field) :
     ItemsOf(card, field)[i].v.name.v = <<p.v[Len(p.v)]>>}

\* Every declared property is once in one of the two lists, and one
\* declared as both kinds or as neither is a datatype property exactly when
\* its range is an XSD datatype.
Partitioned ==
  \A p \in DeclaredProperties :
    /\ Cardinality(EntriesFor("datatype_properties", p))
         + Cardinality(EntriesFor("object_properties", p)) = 1
    /\ (DeclaredAs(p, OWL_DatatypeProperty) <=> DeclaredAs(p, OWL_ObjectProperty))
         => (EntriesFor("datatype_properties", p) # {} <=> RangeIsXsd(p))

\* C23: extraction partitions the properties by kind. The card extracted
\* from an ontology file, by ttl_to_schema_card or by
\* schema_card_from_ontology_ttl, lists every declared property in exactly
\* one of datatype_properties and object_properties, a property declared
\* as both kinds or as neither by whether its range is an XSD datatype.
C23_PropertiesPartitioned ==
  (op \in {"ttl_to_schema_card", "schema_card_from_ontology_ttl"} /\ raised = "")
    => Partitioned

\* C24: a failed registration is atomic. A registration that raises,
\* through register_ontology, the MCP tool add_ontology or POST /ontologies,
\* leaves the manifest and every file of the catalog directory as they
\* were before the call.
C24_FailedRegistrationAtomic ==
  [][(op' \in {"register", "mcp_add", "rest_add"} /\ raised' # "") => dir' = dir]_vars

\* The member names of an alias group, trimmed and lower-cased, each with the
\* number of times the group names it: the key of the group.
NameBag(group) ==
  {<<n, Cardinality({i \in DOMAIN group.v.names.v :
                       Lower(Strip(group.v.names.v[i].v)) = n})>> : n \in NameSet(group)}

EntryFields == {"classes", "datatype_properties", "object_properties", "events"}

\* The key of an entry of a card: the name of a class or event, the (domain,
\* name, range) of a property, trimmed and lower-cased; a datatype property
\* written without a range has the range "any".
CardKey(entry, field) ==
  IF field = "datatype_properties" /\ ~HasKey(entry, "range")
  THEN <<KeyText(entry, "domain"), KeyText(entry, "name"), <<"a","n","y">> >>
  ELSE MergeKey(entry, field, FALSE)

\* Every entry of the card before with a non-empty key, and every alias
\* group of it with a non-empty name, is in the card after under its key.
Kept(before, after) ==
  /\ \A field \in EntryFields :
       \A i \in DOMAIN ItemsOf(before, field) :
         Filed(ItemsOf(before, field)[i], field) =>
           \E o \in DOMAIN ItemsOf(after, field) :
             CardKey(ItemsOf(after, field)[o], field)
               = CardKey(ItemsOf(before, field)[i], field)
  /\ \A i \in DOMAIN ItemsOf(before, "aliases") :
       NameSet(ItemsOf(before, "aliases")[i]) # {} =>
         \E o \in DOMAIN ItemsOf(after, "aliases") :
           NameBag(ItemsOf(after, "aliases")[o]) = NameBag(ItemsOf(before, "aliases")[i])

\* C25: merging is monotone. A merge removes nothing: every class, datatype
\* property, object property and event of the card it started from that has
\* a non-empty key, and every alias group with a non-empty name, is in the
\* card it wrote under the same key, so that the key sets only grow from
\* merge to merge.
C25_MergeMonotone ==
  [][(op' = "merge" /\ raised' = "") => Kept(card, card')]_vars

\* The second merge in a row into the card edited by hand: its entries with
\* a key are still there, next to a datatype property the proposals added.
C25_Witness ==
  /\ Merged
  /\ merges = 2
  /\ Kept(EditedCard, card)
  /\ PropKeys(ItemsOf(card, "datatype_properties"))
       \ PropKeys(ItemsOf(EditedCard, "datatype_properties")) # {}
  /\ Len(ItemsOf(card, "classes")) = 2
  /\ Len(ItemsOf(card, "object_properties")) = 1

\* No two entries of the list have the same key.
UniqueKeys(doc, field) ==
  \A i, j \in DOMAIN ItemsOf(doc, field) :
    i # j => MergeKey(ItemsOf(doc, field)[i], field, FALSE)
               # MergeKey(ItemsOf(doc, field)[j], field, FALSE)

\* C26: key uniqueness in every merged card. Whatever the card a merge
\* started from, one holding the same key twice included, the card it
\* returns has no two classes with the same trimmed lower-cased name, no two
\* datatype properties and no two object properties with the same trimmed
\* lower-cased (domain, name, range), and no two events with the same
\* trimmed lower-cased name.
C26_KeysUnique ==
  Merged => \A field \in EntryFields : UniqueKeys(card, field)

\* A merge into the card edited by hand, which holds the class a, the
\* property a.x and the relation a.r twice and the event e twice, of a
\* proposal that names a class or a property again.
C26_Witness ==
  /\ Merged
  /\ prev_card = EditedCard
  /\ \E field \in EntryFields : ~UniqueKeys(prev_card, field)
  /\ Len(ItemsOf(proposal, "classes")) + Len(ItemsOf(proposal, "datatype_properties")) > 1
  /\ Len(ItemsOf(card, "classes")) = 2
  /\ Len(ItemsOf(card, "events")) = 1

\* The class a warning complains about: the text between "refers to unknown
\* domain class " or "refers to unknown range class " and the full stop, for
\* the place i of the phrase in the warning w.
Complains(w, i) ==
  /\ w[i] \in {<<" refers to unknown domain class ">>[1],
               <<" refers to unknown range class ">>[1]}
  /\ w[Len(w)] = "."

UnknownClass(w, i) == SubSeq(w, i + 1, Len(w) - 1)

\* C27: dangling-reference warnings are current. After any sequence of
\* merges, every warning of the card that says a property refers to an
\* unknown domain or range class X names a class that is not among the
\* classes of the card, whatever the letter case: a warning carried over
\* from the previous card does not outlive the addition of its class.
C27_WarningsCurrent ==
  Merged =>
    \A n \in DOMAIN ItemsOf(card, "warnings") :
      LET w == ItemsOf(card, "warnings")[n].v IN
      \A i \in DOMAIN w :
        Complains(w, i) =>
          \A c \in DOMAIN ItemsOf(card, "classes") :
            Lower(ItemsOf(card, "classes")[c].v.name.v) # Lower(UnknownClass(w, i))

\* The texts of a list of strings of an entry, as a set.
TextSet(entry, field) ==
  {entry.v[field].v[i].v : i \in DOMAIN entry.v[field].v}

\* The keys of a card: per list the keys of its entries, per event its
\* actors and effects as sets, and the keys of the alias groups.
KeysOf(doc) ==
  [entries |-> [field \in EntryFields |->
                  {CardKey(ItemsOf(doc, field)[i], field) :
                     i \in DOMAIN ItemsOf(doc, field)}],
   events |-> {<<KeyText(ItemsOf(doc, "events")[i], "name"),
                 TextSet(ItemsOf(doc, "events")[i], "actors"),
                 TextSet(ItemsOf(doc, "events")[i], "effects")>> :
                 i \in DOMAIN ItemsOf(doc, "events")},
   aliases |-> {NameBag(ItemsOf(doc, "aliases")[i]) :
                  i \in DOMAIN ItemsOf(doc, "aliases")}]

\* Merging p1 then p2 into the card c, and p2 then p1, give the same keys.
Converges(c, p1, p2, first) ==
  LET p1p2 == schema_card_from_proposal(first, p2, PNone, now)
      p2p1 == schema_card_from_proposal(
                schema_card_from_proposal(c, p2, PNone, now), p1, PNone, now)
  IN /\ ~IsRaise(p1p2)
     /\ ~IsRaise(p2p1)
     /\ KeysOf(p1p2) = KeysOf(p2p1)

\* C28: convergence under reordering of merges. For the card C a merge
\* started from, the proposal P1 it merged and every proposal P2 of the run,
\* merging P1 then P2 into C and merging P2 then P1 into C give cards with
\* the same class keys, the same datatype- and object-property keys (ranges
\* included), the same event keys with the same sets of actors and effects,
\* and the same alias keys.
C28_MergeOrderIndependent ==
  Merged => \A p2 \in Proposals(family) : Converges(prev_card, proposal, p2, card)

\* A merge of a proposal with an event into a card; another proposal of the
\* run names the same event with other actors, so that the two orders meet
\* in the union of the actors.
C28_Witness ==
  /\ Merged
  /\ ItemsOf(proposal, "events") # <<>>
  /\ \E p2 \in Proposals(family) :
       /\ ItemsOf(p2, "events") # <<>>
       /\ p2 # proposal
       /\ Converges(prev_card, proposal, p2, card)
       /\ \E e \in KeysOf(schema_card_from_proposal(card, p2, PNone, now)).events :
            /\ Cardinality(e[2]) = 3
            /\ e \notin KeysOf(card).events

\* The texts of the fields of the entries of a list, as a set of tuples.
Texts(doc, field, keys) ==
  {[k \in DOMAIN keys |-> ItemsOf(doc, field)[i].v[keys[k]].v] :
     i \in DOMAIN ItemsOf(doc, field)}

\* The range a datatype range comes back as: itself for string, number,
\* integer, boolean, date and datetime, string for enum and any.
BackRange(range) ==
  IF range \in {<<"e","n","u","m">>, <<"a","n","y">>} THEN <<"s","t","r","i","n","g">>
  ELSE range

\* C29: schema round trip through RDF. The card read back with
\* ttl_to_schema_card from the graph proposal_to_ttl built of a card, under
\* the same namespace, has the same class names, the same object properties
\* by (domain, name, range) and the same datatype properties by (domain,
\* name), the range of each mapped back to itself, enum and any to string;
\* also for a card where a property name occurs with several domains or
\* ranges, or as a datatype and an object property.
C29_SchemaRoundTrip ==
  (op = "ttl_to_schema_card" /\ raised = "") =>
    /\ Texts(card, "classes", <<"name">>) = Texts(prev_card, "classes", <<"name">>)
    /\ Texts(card, "object_properties", <<"domain", "name", "range">>)
         = Texts(prev_card, "object_properties", <<"domain", "name", "range">>)
    /\ Texts(card, "datatype_properties", <<"domain", "name", "range">>)
         = {<<k[1], k[2], BackRange(k[3])>> :
              k \in Texts(prev_card, "datatype_properties", <<"domain", "name", "range">>)}

\* The locals of the extraction.
Extraction == procs[1]

\* The calls of the LLM for the chunk of index i.
CallsFor(i) == {n \in DOMAIN calls : calls[n].chunk = i}

\* C30: bounded retry per chunk. Both extractors take the chunks in input
\* order, call the LLM at most max_retries times for a chunk (three times
\* for the schema) and not again after its first success; they end by
\* returning exactly one proposal per chunk, in chunk order, or by raising
\* the error of the last allowed attempt on a chunk, and never return a
\* list that omits a chunk.
C30_BoundedRetry ==
  procs # <<>> =>
    /\ \A n, m \in DOMAIN calls : n < m => calls[n].chunk <= calls[m].chunk
    /\ \A i \in DOMAIN RetryChunks :
         /\ Cardinality(CallsFor(i)) <= Extraction.max_retries
         /\ \A n \in CallsFor(i) :
              calls[n].reply = "dict" => \A m \in CallsFor(i) : m <= n
    /\ Extraction.pc = "done" =>
         /\ Len(Extraction.out) = Len(RetryChunks)
         /\ \A i \in DOMAIN RetryChunks :
              Extraction.out[i].v.chunk_id.v = RetryChunks[i]
    /\ Extraction.pc = "raised" =>
         /\ calls # <<>>
         /\ raised = TryOutcome(calls[Len(calls)].reply)
         /\ raised # ""
         /\ calls[Len(calls)].attempt = Extraction.max_retries - 1

\* The extraction ends: it returns or raises.
C30_Terminates == <>(procs # <<>> /\ procs[1].pc \in {"done", "raised"})

====
